---------------------------- MODULE Spec2Model ----------------------------
(***************************************************************************)
(* A model of the vitalium-verb reverb engine (vitalium_verb_dsp):         *)
(* Reverb::default / init / process / process_block / reset, the stereo    *)
(* ring memory and the one-pole filters.                                   *)
(*                                                                         *)
(* Numbers.  TLC has 32-bit integers only, so every f32 of the program is  *)
(* carried as a fixed-point integer.  Five formats are used:               *)
(*   Q  value * 2^20   samples, gains, coefficients, parameters, seconds   *)
(*   D  value * 2^10   sample counts with a fraction, Hertz                *)
(*   R  value * 2^36   reciprocals of sample counts                        *)
(*   P  value * 2^30   the chorus phase, in cycles                         *)
(*   I  value * 2^16   the pre-delay increment, in samples per frame       *)
(* Products round to the nearest unit.  cos, tan and powf are computed     *)
(* from their series.  The model is therefore exact about the structure of *)
(* the computation (what is read, what is written, in which order, with    *)
(* which index) and approximate about the last bits of a sample.           *)
(*                                                                         *)
(* Buffers.  A Vec<f32> is a record [len, cells]: cells maps the indices   *)
(* that hold a non-zero value to that value; every other index below len   *)
(* holds 0.  The representation is canonical: two buffers are equal as     *)
(* values exactly when they have the same length and the same contents.    *)
(*                                                                         *)
(* An f32x4 whose lanes are always produced by splat is carried as the     *)
(* scalar; the other f32x4 / i32x4 values are 4-tuples.                    *)
(***************************************************************************)
EXTENDS Integers, Sequences, FiniteSets, TLC

VARIABLES
    eng,        \* the Reverb object
    pre,        \* the Reverb object at entry of the last process/reset call
    last,       \* the last call: "new", "init", "process", "reset"
    call,       \* the arguments of the last call
    outL,       \* the caller's left buffer after the last process call
    outR,       \* the caller's right buffer after the last process call
    blocks,     \* the blocks process_block ran in the last call
    targets,    \* the clamped pre-delay target of each of those blocks
    applied,    \* what each frame of the last call was processed with
    panicked,   \* the last call aborted with a panic
    ninit,      \* number of init calls so far
    ncall       \* number of process/reset calls so far

vars == <<eng, pre, last, call, outL, outR, blocks, targets, applied, panicked,
          ninit, ncall>>

---------------------------------------------------------------------------
(* Fixed-point arithmetic                                                  *)

K == 2 ^ 10
ONE == 2 ^ 20
D_ONE == 2 ^ 10
I_ONE == 2 ^ 16
P_ONE == 2 ^ 30

Min(a, b) == IF a < b THEN a ELSE b
Abs(a) == IF a < 0 THEN 0 - a ELSE a

\* f32::clamp
Clamp(x, lo, hi) == IF x < lo THEN lo ELSE IF x > hi THEN hi ELSE x

\* a * b / 2^20, rounded, without leaving 32 bits: a Q times any format.
MulQ(a, b) ==
    LET a1 == a \div K
        a0 == a % K
        b1 == b \div K
        b0 == b % K
    IN  a1 * b1 + ((a1 * b0 + a0 * b1 + ((a0 * b0) \div K) + (K \div 2)) \div K)

\* floor(x * y / 2^k) for x of any sign, y >= 0 and y * 2^k < 2^31
MulShift(x, y, k) == (x \div (2 ^ k)) * y + (((x % (2 ^ k)) * y) \div (2 ^ k))

\* value num/den in Q and in D
F(num, den) == (num * ONE) \div den
FD(num, den) == (num * D_ONE) \div den

PI_Q == 3294199          \* pi * 2^20
HALF_PI_Q == 1647099     \* FRAC_PI_2 * 2^20
TAU_Q == 6588397         \* TAU * 2^20
LN2_Q == 726817          \* ln 2 * 2^20
LN10_Q == 2414435        \* ln 10 * 2^20

\* cos on [0, pi/2] from its series, Q -> Q
CosSeries(x) ==
    LET x2 == MulQ(x, x)
        t1 == x2 \div 2
        t2 == MulQ(t1, x2) \div 12
        t3 == MulQ(t2, x2) \div 30
        t4 == MulQ(t3, x2) \div 56
        t5 == MulQ(t4, x2) \div 90
        t6 == MulQ(t5, x2) \div 132
    IN  ONE - t1 + t2 - t3 + t4 - t5 + t6

\* f32::cos, Q radians -> Q
Cos(x) ==
    LET y == Abs(x) % TAU_Q
        z == IF y > PI_Q THEN TAU_Q - y ELSE y
    IN  IF z > HALF_PI_Q THEN 0 - CosSeries(PI_Q - z) ELSE CosSeries(z)

\* f32::sin, Q radians -> Q
Sin(x) == Cos(x - HALF_PI_Q)

\* a / b with 0 < b < 2^27, in the format of a times 2^20: four bits of the
\* quotient at a time
DivQ(a, b) ==
    LET q0 == a \div b
        r0 == a % b
        q1 == (r0 * 16) \div b
        r1 == (r0 * 16) % b
        q2 == (r1 * 16) \div b
        r2 == (r1 * 16) % b
        q3 == (r2 * 16) \div b
        r3 == (r2 * 16) % b
        q4 == (r3 * 16) \div b
        r4 == (r3 * 16) % b
        q5 == (r4 * 16) \div b
    IN  ((((q0 * 16 + q1) * 16 + q2) * 16 + q3) * 16 + q4) * 16 + q5

\* f32::tan on [0, pi/2), Q -> Q
Tan(x) == DivQ(Sin(x), Cos(x))

\* e^(-r) for r in [0, ln 2) from its series, Q -> Q
ExpSeries(r) ==
    LET t1 == r
        t2 == MulQ(t1, r) \div 2
        t3 == MulQ(t2, r) \div 3
        t4 == MulQ(t3, r) \div 4
        t5 == MulQ(t4, r) \div 5
        t6 == MulQ(t5, r) \div 6
        t7 == MulQ(t6, r) \div 7
        t8 == MulQ(t7, r) \div 8
    IN  ONE - t1 + t2 - t3 + t4 - t5 + t6 - t7 + t8

\* e^(-y) for y >= 0, Q -> Q
ExpNeg(y) ==
    LET k == y \div LN2_Q
        r == y % LN2_Q
    IN  IF k > 30 THEN 0 ELSE ExpSeries(r) \div (2 ^ k)

\* 2.0f32.powf(x) for x in [-3, 1], Q -> Q
Pow2(x) == 2 * ExpNeg(MulQ(ONE - x, LN2_Q))

\* 10.0f32.powf(x) for x <= 0, Q -> Q
Pow10(x) == ExpNeg(MulQ(0 - x, LN10_Q))


\* a & m on two's complement integers
RECURSIVE BitAndRec(_, _)
BitAndRec(a, m) ==
    IF a = 0 \/ m = 0 THEN 0
    ELSE IF a = -1 THEN m
    ELSE IF m = -1 THEN a
    ELSE (a % 2) * (m % 2) + 2 * BitAndRec(a \div 2, m \div 2)

Pow2Set == {2 ^ k : k \in 0..30}

\* BitAnd as the remainder by the mask itself
RemainderByMask(a, m) == a % m

\* a & m; a mask 2^k - 1 keeps the low k bits
BitAnd(a, m) == IF (m + 1) \in Pow2Set THEN a % (m + 1) ELSE BitAndRec(a, m)

\* u32::next_power_of_two
RECURSIVE NextPow2From(_, _)
NextPow2From(n, p) == IF p >= n THEN p ELSE NextPow2From(n, 2 * p)
NextPowerOfTwo(n) == NextPow2From(n, 1)

---------------------------------------------------------------------------
(* Vectors and buffers                                                     *)

Lanes == 1..4
V4(x) == <<x, x, x, x>>

\* one value per lane of a vector, or per container
Each(Op(_)) == <<Op(1), Op(2), Op(3), Op(4)>>

\* `let name = value;` is the function [name \in {value} |-> ...] of the
\* statements after it, applied to its only argument
Bind(f) == f[CHOOSE x \in DOMAIN f : TRUE]

\* lane-wise arithmetic on f32x4
VAdd(a, b) == <<a[1] + b[1], a[2] + b[2], a[3] + b[3], a[4] + b[4]>>
VSub(a, b) == <<a[1] - b[1], a[2] - b[2], a[3] - b[3], a[4] - b[4]>>
VMul(a, b) == <<MulQ(a[1], b[1]), MulQ(a[2], b[2]), MulQ(a[3], b[3]), MulQ(a[4], b[4])>>
VScale(a, x) == <<MulQ(a[1], x), MulQ(a[2], x), MulQ(a[3], x), MulQ(a[4], x)>>
ReduceSum(a) == a[1] + a[2] + a[3] + a[4]

\* vec![0.0; n]
ZeroVec(n) == [len |-> n, cells |-> <<>>]

\* buf[i]
Load(buf, i) == IF i \in DOMAIN buf.cells THEN buf.cells[i] ELSE 0

\* buf[i] = v
StoreCells(cells, i, v) ==
    IF v = 0
    THEN IF i \in DOMAIN cells
         THEN [k \in (DOMAIN cells) \ {i} |-> cells[k]]
         ELSE cells
    ELSE IF i \in DOMAIN cells
         THEN [cells EXCEPT ![i] = v]
         ELSE (i :> v) @@ cells

Store(buf, i, v) == [buf EXCEPT !.cells = StoreCells(@, i, v)]

\* buf.clear(): the vector emptied
Emptied(buf) == ZeroVec(0)

\* buf.fill(0.0)
Fill0(buf) == [buf EXCEPT !.cells = <<>>]

\* every element of the buffer is 0.0
AllZero(buf) == \A i \in DOMAIN buf.cells : buf.cells[i] = 0

---------------------------------------------------------------------------
(* Program constants                                                       *)

MAX_BLOCK_SIZE == 128
LN_T60_Q == 7243397               \* -ln(T60_AMPLITUDE) = ln 1000, Q
ALLPASS_FEEDBACK == F(6, 10)
MIN_DELAY == FD(3, 1)
SAMPLE_DELAY_MULTIPLIER == F(5, 100)
SAMPLE_INCREMENT_MULTIPLIER == F(5, 100)
BASE_SAMPLE_RATE == 44100
MAX_SAMPLE_RATE == 192000
MAX_CHORUS_DRIFT == 2500
NETWORK_SIZE == 16
NETWORK_CONTAINERS == NETWORK_SIZE \div 4
Containers == 1..NETWORK_CONTAINERS
BASE_FEEDBACK_BITS == 14
EXTRA_LOOKUP_SAMPLE == 1
BASE_ALLPASS_BITS == 10
MIN_SIZE_POWER == -3
MAX_SIZE_POWER == 1
SIZE_POWER_RANGE == MAX_SIZE_POWER - MIN_SIZE_POWER
FEED_FORWARD_SCALE == F(125, 1000)
INPUT_UNSCALED == F(16, 1)         \* an input gain of 16 instead
INPUT_SCALE == F(25, 100)
NEG_ONE_HALF == 0 - F(1, 2)
POLY_LEN == 4

ALLPASS_DELAYS ==
    << <<1001, 799, 933, 876>>,
       <<895, 807, 907, 853>>,
       <<957, 1019, 711, 567>>,
       <<833, 779, 663, 997>> >>

\* in D
FEEDBACK_DELAYS ==
    << <<FD(67532, 10), FD(92784, 10), FD(77045, 10), FD(113285, 10)>>,
       <<FD(970112, 100), FD(55125, 10), FD(848045, 100), FD(563865, 100)>>,
       <<FD(312073, 100), FD(34295, 10), FD(362637, 100), FD(771352, 100)>>,
       <<FD(452154, 100), FD(651897, 100), FD(526556, 100), FD(563025, 100)>> >>

V_DELAY_OFFSET == <<0, -1, -2, -3>>
V_CHORUS_PHASE_OFFSET == <<0, 1, 2, 3>>
NETWORK_OFFSET == TAU_Q \div NETWORK_SIZE

\* ReverbParams' bounds: cutoffs in D (Hertz), the others in Q
MIN_CUTOFF_FREQ == FD(20, 1)
MAX_CUTOFF_FREQ == FD(20000, 1)
MIN_SHELF_GAIN_DB == F(-6, 1)
MAX_SHELF_GAIN_DB == F(0, 1)
MAX_DELAY_SECONDS == F(3, 10)
MIN_DECAY_SECONDS == F(1, 10)
MAX_DECAY_SECONDS == F(64, 1)
MIN_CHORUS_FREQ == F(3, 1000)
MAX_CHORUS_FREQ == F(8, 1)

\* ReverbParams::default()
DefaultParams ==
    [ mix |-> F(25, 100),
      size |-> F(5, 10),
      decay |-> F(1, 1),
      delay |-> F(4, 1000),
      width |-> F(-5, 100),
      chorus_freq_hz |-> F(25, 100),
      chorus_amount |-> F(46, 1000),
      pre_low_cut_hz |-> MIN_CUTOFF_FREQ,
      pre_high_cut_hz |-> FD(4700, 1),
      low_shelf_cut_hz |-> MIN_CUTOFF_FREQ,
      low_shelf_gain_db |-> MAX_SHELF_GAIN_DB,
      high_shelf_cut_hz |-> FD(1480, 1),
      high_shelf_gain_db |-> F(-1, 1) ]

---------------------------------------------------------------------------
(* StereoMemory                                                            *)

\* StereoMemory::new
StereoMemoryNew(size) ==
    LET sz == NextPowerOfTwo(size)
    IN  [ left |-> ZeroVec(2 * sz),
          right |-> ZeroVec(2 * sz),
          size |-> sz,
          bitmask |-> sz - 1,
          offset |-> 0 ]

\* a push that writes the sample once
StereoMemoryPushOnce(m, s0, s1) ==
    LET off == BitAnd(m.offset + 1, m.bitmask)
    IN  [ m EXCEPT !.offset = off,
                   !.left = Store(@, off, s0),
                   !.right = Store(@, off, s1) ]

\* StereoMemory::push; sample is the pair of lanes 0 and 1
StereoMemoryPush(m, s0, s1) ==
    LET off == BitAnd(m.offset + 1, m.bitmask)
    IN  [ m EXCEPT !.offset = off,
                   !.left = Store(Store(@, off, s0), off + m.size, s0),
                   !.right = Store(Store(@, off, s1), off + m.size, s1) ]

\* a clear that also rewinds the ring
StereoMemoryRewind(m) == [m EXCEPT !.left = Fill0(@), !.right = Fill0(@), !.offset = 0]

\* StereoMemory::clear
StereoMemoryClear(m) == [m EXCEPT !.left = Fill0(@), !.right = Fill0(@)]

---------------------------------------------------------------------------
(* OnePoleFilter                                                           *)

\* OnePoleFilter::new
OnePoleFilterNew == [current_state |-> V4(0), filter_state |-> V4(0)]

\* a reset that hands the filter state over to current_state
OnePoleFilterFlush(f) == [current_state |-> f.filter_state, filter_state |-> V4(0)]

\* OnePoleFilter::reset
OnePoleFilterReset(f) == [current_state |-> V4(0), filter_state |-> V4(0)]

\* the filter state after a tick that moved it by delta
Ticked(f, delta) ==
    [ current_state |-> VAdd(f.filter_state, delta),
      filter_state |-> VAdd(VAdd(f.filter_state, delta), delta) ]

\* OnePoleFilter::tick: the filter after the tick; its current_state is the
\* value tick returns
OnePoleFilterTick(f, audio_in, coefficient) ==
    Ticked(f, VScale(VSub(audio_in, f.filter_state), coefficient))

\* OnePoleFilter::compute_coeff: cutoff in D, sample_rate_recip in R, -> Q
ComputeCoeff(cutoff_frequency, sample_rate_recip) ==
    LET pi_recip == MulQ(PI_Q, sample_rate_recip)                  \* R
        delta_phase == MulQ(cutoff_frequency, pi_recip) \div 64     \* Q
    IN  Tan(DivQ(delta_phase, delta_phase + ONE))

---------------------------------------------------------------------------
(* Reverb: construction, init, reset                                       *)

\* <Reverb as Default>::default
DefaultReverb ==
    [ stereo_memory |-> StereoMemoryNew(MAX_SAMPLE_RATE),
      allpass_memories |-> Each(LAMBDA c : ZeroVec(0)),
      feedback_memories |-> Each(LAMBDA c : Each(LAMBDA j : ZeroVec(0))),
      decays |-> Each(LAMBDA c : V4(0)),
      pre_low_filter |-> OnePoleFilterNew,
      pre_high_filter |-> OnePoleFilterNew,
      low_shelf_filters |-> Each(LAMBDA c : OnePoleFilterNew),
      high_shelf_filters |-> Each(LAMBDA c : OnePoleFilterNew),
      pre_low_coeff |-> F(1, 10),
      pre_high_coeff |-> F(1, 10),
      low_shelf_coeff |-> F(1, 10),
      high_shelf_coeff |-> F(1, 10),
      low_shelf_amp |-> 0,
      high_shelf_amp |-> 0,
      chorus_phase |-> 0,
      chorus_amount |-> V4(0),
      sample_delay |-> MIN_DELAY,
      sample_delay_increment |-> 0,
      dry_amp |-> 0,
      wet_amp |-> 0,
      width_coeff |-> F(1, 2),
      write_index |-> 0,
      max_feedback_size |-> 0,
      feedback_mask |-> 0,
      allpass_mask |-> 0,
      delay_offset_v |-> V4(0),
      allpass_offsets |-> Each(LAMBDA c : V4(0)),
      delays |-> Each(LAMBDA c : V4(0)),
      prev_pre_low_cut_hz |-> 0,
      prev_pre_high_cut_hz |-> 0,
      prev_low_shelf_cut_hz |-> 0,
      prev_high_shelf_cut_hz |-> 0,
      prev_size_val |-> F(-1, 1),
      prev_decay_val |-> F(-1, 1),
      prev_chorus_freq_hz |-> F(-1, 1),
      prev_mix_val |-> F(-1, 1),
      prev_low_shelf_gain_db |-> F(-1000, 1),
      prev_high_shelf_gain_db |-> F(-1000, 1),
      size_mult_v |-> 0,
      chorus_increment_real_v |-> 0,
      chorus_increment_imaginary_v |-> 0,
      sample_rate |-> 0,
      sample_rate_ratio |-> 0,
      sample_rate_recip |-> 0,
      buffer_scale |-> 0,
      did_init |-> FALSE ]

\* get_sample_rate_ratio: Hertz -> Q
GetSampleRateRatio(sample_rate) == DivQ(sample_rate, BASE_SAMPLE_RATE)

\* a get_buffer_scale that doubles while scale <= ratio
RECURSIVE BufferScaleAbove(_, _)
BufferScaleAbove(scale, ratio) ==
    IF scale * ONE <= ratio THEN BufferScaleAbove(scale * 2, ratio) ELSE scale

GetBufferScaleAbove(sample_rate) ==
    BufferScaleAbove(1, GetSampleRateRatio(sample_rate))

\* get_buffer_scale
RECURSIVE BufferScaleLoop(_, _)
BufferScaleLoop(scale, ratio) ==
    IF scale * ONE < ratio THEN BufferScaleLoop(scale * 2, ratio) ELSE scale

GetBufferScale(sample_rate) == BufferScaleLoop(1, GetSampleRateRatio(sample_rate))

\* allpass offsets that are not swizzled
KeepStereo(v) == v

\* poly_utils::swap_stereo_x4
SwapStereo(v) == <<v[2], v[1], v[4], v[3]>>

\* poly_utils::swap_voices_x4
SwapVoices(v) == <<v[3], v[4], v[1], v[2]>>

\* init on the object as it is
InitInPlace(self) == self

\* the object init starts from: `*self = Self::default()`
InitStart(self) == DefaultReverb

\* Reverb::init, sample_rate in Hertz
InitOp(self, sample_rate) ==
    LET s0 == InitStart(self)
        buffer_scale == GetBufferScale(sample_rate)
        max_feedback_size ==
            buffer_scale * (2 ^ (BASE_FEEDBACK_BITS + MAX_SIZE_POWER))
        feedback_mask == max_feedback_size - 1
        delay_offset ==
            IF buffer_scale # 0
            THEN Each(LAMBDA j : V_DELAY_OFFSET[j] + POLY_LEN)
            ELSE V_DELAY_OFFSET
        max_allpass_size == buffer_scale * (2 ^ BASE_ALLPASS_BITS) * 4
    IN  [ s0 EXCEPT
            !.sample_rate = sample_rate * D_ONE,
            !.sample_rate_recip = DivQ(2 ^ 16, sample_rate),
            !.sample_rate_ratio = GetSampleRateRatio(sample_rate),
            !.buffer_scale = buffer_scale,
            !.max_feedback_size = max_feedback_size,
            !.feedback_mask = feedback_mask,
            !.delay_offset_v = delay_offset,
            !.feedback_memories =
                Each(LAMBDA c : Each(LAMBDA j :
                    ZeroVec(max_feedback_size + EXTRA_LOOKUP_SAMPLE * 4))),
            !.allpass_mask = max_allpass_size - 1,
            !.allpass_offsets =
                Each(LAMBDA c : SwapStereo(Each(LAMBDA j :
                    ALLPASS_DELAYS[c][j] * buffer_scale * POLY_LEN + delay_offset[j]))),
            !.allpass_memories = Each(LAMBDA c : ZeroVec(max_allpass_size)),
            !.write_index = BitAnd(s0.write_index, feedback_mask),
            !.did_init = TRUE ]

\* what reset does to the feedback memories
ResetFeedback(fm) == Each(LAMBDA c : Each(LAMBDA j : Fill0(fm[c][j])))

\* a reset that leaves the allpass memories alone
KeepAllpass(am) == am

\* what reset does to the allpass memories
ResetAllpass(am) == Each(LAMBDA c : Fill0(am[c]))

\* Reverb::reset
ResetOp(self) ==
    [ self EXCEPT
        !.pre_low_filter = OnePoleFilterReset(@),
        !.pre_high_filter = OnePoleFilterReset(@),
        !.low_shelf_filters = Each(LAMBDA c : OnePoleFilterReset(@[c])),
        !.high_shelf_filters = Each(LAMBDA c : OnePoleFilterReset(@[c])),
        !.feedback_memories = ResetFeedback(@),
        !.allpass_memories = ResetAllpass(@),
        !.stereo_memory = StereoMemoryClear(@) ]

---------------------------------------------------------------------------
(* Reverb::process_block: block-entry preparation                          *)

\* the clamped parameter values process_block works with
MixVal(params) == Clamp(params.mix, 0, ONE)
LowShelfGainDb(params) == Clamp(params.low_shelf_gain_db, MIN_SHELF_GAIN_DB, MAX_SHELF_GAIN_DB)
HighShelfGainDb(params) == Clamp(params.high_shelf_gain_db, MIN_SHELF_GAIN_DB, MAX_SHELF_GAIN_DB)
\* the width clamped to [0, 1]
WidthFromZero(params) == Clamp(params.width, 0, ONE)

\* the width as passed
WidthAsPassed(params) == params.width

WidthVal(params) == Clamp(params.width, 0 - ONE, ONE)
SizeVal(params) == Clamp(params.size, 0, ONE)
DecayVal(params) == Clamp(params.decay, MIN_DECAY_SECONDS, MAX_DECAY_SECONDS)
ChorusFreq(params) == Clamp(params.chorus_freq_hz, MIN_CHORUS_FREQ, MAX_CHORUS_FREQ)
ChorusAmountVal(params) == Clamp(params.chorus_amount, 0, ONE)

\* f32::NAN as a value of the pre-delay: of params.delay and of what is
\* computed from it. No number of the pre-delay path is this low
NAN == (1 - (2 ^ 30)) - (2 ^ 30)

\* f32::clamp and Simd::simd_clamp: a NaN stays a NaN
ClampF32(x, lo, hi) == IF x = NAN THEN NAN ELSE Clamp(x, lo, hi)

\* the clamped pre-delay target, in samples (D)
ClampedTargetDelay(self, params) ==
    ClampF32(IF params.delay = NAN THEN NAN ELSE MulQ(params.delay, self.sample_rate),
             MIN_DELAY, MAX_SAMPLE_RATE * D_ONE)

\* utils::db_to_amplitude
DbToAmplitude(dbs) == Pow10(MulQ(dbs, F(5, 100)))

\* a fade over half a turn instead of a quarter
EqualPowerFadeHalfTurn(normal) == Cos(MulQ(normal, PI_Q))

\* utils::equal_power_fade
EqualPowerFade(normal) == Cos(MulQ(normal, HALF_PI_Q))

\* the fade of the dry signal, for the wet one
EqualPowerFadeAgain(normal) == Cos(MulQ(normal, HALF_PI_Q))

\* utils::equal_power_fade_inverse
EqualPowerFadeInverse(normal) == Cos(MulQ(normal - ONE, HALF_PI_Q))

\* a wrap that leaves the last of the cells past the end as it was
WrapBufferButLast(buf, max_feedback_size) ==
    LET b0 == Store(buf, 0, Load(buf, max_feedback_size))
        b1 == Store(b0, max_feedback_size + 1, Load(b0, 1))
    IN  Store(b1, max_feedback_size + 2, Load(b1, 2))

\* the "Wrap feedback memory buffers" step on one buffer
WrapBuffer(buf, max_feedback_size) ==
    LET b0 == Store(buf, 0, Load(buf, max_feedback_size))
        b1 == Store(b0, max_feedback_size + 1, Load(b0, 1))
        b2 == Store(b1, max_feedback_size + 2, Load(b1, 2))
    IN  Store(b2, max_feedback_size + 3, Load(b2, 3))

\* a prepare_filter_param that ramps from the coefficient of a new filter in
\* every block
PrepareFilterParamAnew(cut, prev_cut, coeff, sample_rate_recip, tick_increment) ==
    Bind([new_cut \in {Clamp(cut, MIN_CUTOFF_FREQ, MAX_CUTOFF_FREQ)} |->
    Bind([new_coeff \in {IF prev_cut # new_cut
                         THEN ComputeCoeff(new_cut, sample_rate_recip) ELSE coeff} |->
        [ prev |-> new_cut, coeff |-> new_coeff, current |-> F(1, 10),
          delta |-> MulQ(tick_increment, new_coeff - F(1, 10)) ]])])

\* the closure prepare_filter_param
PrepareFilterParam(cut, prev_cut, coeff, sample_rate_recip, tick_increment) ==
    Bind([new_cut \in {Clamp(cut, MIN_CUTOFF_FREQ, MAX_CUTOFF_FREQ)} |->
        IF prev_cut # new_cut
        THEN Bind([new_coeff \in {ComputeCoeff(new_cut, sample_rate_recip)} |->
                 [ prev |-> new_cut, coeff |-> new_coeff, current |-> coeff,
                   delta |-> MulQ(tick_increment, new_coeff - coeff) ]])
        ELSE [prev |-> prev_cut, coeff |-> coeff, current |-> coeff, delta |-> 0]])

\* size_mult, decays and delays for a size and a decay value
SizeMult(size_val) == Pow2(MulQ(size_val, SIZE_POWER_RANGE * ONE) + MIN_SIZE_POWER * ONE)

DecaysFor(size_mult, decay_val) ==
    LET decay_samples == MulShift(decay_val, BASE_SAMPLE_RATE \div 4, 14)   \* * 2^4
        decay_period == DivQ(size_mult, decay_samples)                      \* R
    IN  Each(LAMBDA c : Each(LAMBDA j :
            ExpNeg(MulQ(LN_T60_Q, MulQ(FEEDBACK_DELAYS[c][j], decay_period) \div 64))))

DelaysFor(size_mult, sample_rate_ratio) ==
    Each(LAMBDA c : Each(LAMBDA j :
        MulQ(sample_rate_ratio, MulQ(size_mult, FEEDBACK_DELAYS[c][j]))))

\* a target chorus_amount capped by the delays of the first three containers
ChorusAmountForThree(amount, sample_rate_ratio, delays) ==
    LET base == MulQ(sample_rate_ratio, MulQ(amount, MAX_CHORUS_DRIFT * D_ONE))
    IN  Each(LAMBDA j :
            Min(Min(Min(base, delays[1][j] - 8 * POLY_LEN * D_ONE),
                    delays[2][j] - 8 * POLY_LEN * D_ONE),
                delays[3][j] - 8 * POLY_LEN * D_ONE))

\* the target chorus_amount (D), capped by every container's delays
ChorusAmountFor(amount, sample_rate_ratio, delays) ==
    LET base == MulQ(sample_rate_ratio, MulQ(amount, MAX_CHORUS_DRIFT * D_ONE))
    IN  Each(LAMBDA j :
            Min(Min(Min(Min(base, delays[1][j] - 8 * POLY_LEN * D_ONE),
                        delays[2][j] - 8 * POLY_LEN * D_ONE),
                    delays[3][j] - 8 * POLY_LEN * D_ONE),
                delays[4][j] - 8 * POLY_LEN * D_ONE))

\* makeup / (0.5 * frames * frames) * SAMPLE_INCREMENT_MULTIPLIER, D -> I
DeltaDelayIncrement(makeup, frames) ==
    LET m == MulQ(SAMPLE_INCREMENT_MULTIPLIER, makeup)
        half_square == frames * frames
        per_d == 2 * (I_ONE \div D_ONE)
    IN  IF makeup = NAN
        THEN NAN
        ELSE per_d * (m \div half_square) + ((per_d * (m % half_square)) \div half_square)

\* a size/decay block that recomputes decays and delays for a new decay only
DecayChanged(self, size_val, decay_val) == self.prev_decay_val # decay_val

\* whether the size/decay block recomputes decays and delays
SizeOrDecayChanged(self, size_val, decay_val) ==
    self.prev_size_val # size_val \/ self.prev_decay_val # decay_val

\* process_block up to the process loop: the engine with its targets and
\* shadows updated, the block's registers (current_*) and deltas
Prepare(self, frames, params) ==
    Bind([tick_increment \in {ONE \div frames} |->
    Bind([pl \in {PrepareFilterParam(params.pre_low_cut_hz, self.prev_pre_low_cut_hz,
                           self.pre_low_coeff, self.sample_rate_recip, tick_increment)} |->
    Bind([ph \in {PrepareFilterParam(params.pre_high_cut_hz, self.prev_pre_high_cut_hz,
                           self.pre_high_coeff, self.sample_rate_recip, tick_increment)} |->
    Bind([ls \in {PrepareFilterParam(params.low_shelf_cut_hz, self.prev_low_shelf_cut_hz,
                           self.low_shelf_coeff, self.sample_rate_recip, tick_increment)} |->
    Bind([hs \in {PrepareFilterParam(params.high_shelf_cut_hz, self.prev_high_shelf_cut_hz,
                           self.high_shelf_coeff, self.sample_rate_recip, tick_increment)} |->
    \* mix
    Bind([mix_val \in {MixVal(params)} |->
    Bind([dry_amp \in {IF self.prev_mix_val # mix_val THEN EqualPowerFade(mix_val) ELSE self.dry_amp} |->
    Bind([wet_amp \in {IF self.prev_mix_val # mix_val THEN EqualPowerFadeInverse(mix_val) ELSE self.wet_amp} |->
    \* shelf gains
    Bind([low_shelf_gain_db \in {LowShelfGainDb(params)} |->
    Bind([high_shelf_gain_db \in {HighShelfGainDb(params)} |->
    Bind([low_shelf_amp \in {IF self.prev_low_shelf_gain_db # low_shelf_gain_db
        THEN ONE - DbToAmplitude(low_shelf_gain_db) ELSE self.low_shelf_amp} |->
    Bind([high_shelf_amp \in {IF self.prev_high_shelf_gain_db # high_shelf_gain_db
        THEN DbToAmplitude(high_shelf_gain_db) ELSE self.high_shelf_amp} |->
    \* width
    Bind([width_coeff \in {MulQ(WidthVal(params) + ONE, F(1, 2))} |->
    \* size / decay
    Bind([size_val \in {SizeVal(params)} |->
    Bind([decay_val \in {DecayVal(params)} |->
    Bind([changed \in {SizeOrDecayChanged(self, size_val, decay_val)} |->
    Bind([size_mult \in {IF self.prev_size_val # size_val THEN SizeMult(size_val) ELSE self.size_mult_v} |->
    Bind([decays \in {IF changed THEN DecaysFor(size_mult, decay_val) ELSE self.decays} |->
    Bind([delays \in {IF changed THEN DelaysFor(size_mult, self.sample_rate_ratio) ELSE self.delays} |->
    \* chorus
    Bind([chorus_freq \in {ChorusFreq(params)} |->
    Bind([chorus_phase_increment \in {MulQ(chorus_freq, self.sample_rate_recip) \div 64} |->
    Bind([angle \in {MulQ(chorus_phase_increment, TAU_Q) \div K} |->
    Bind([phase \in {MulQ(self.chorus_phase \div K, TAU_Q)} |->
    Bind([chorus_amount \in {ChorusAmountFor(ChorusAmountVal(params), self.sample_rate_ratio, delays)} |->
    \* pre-delay
    Bind([target \in {ClampedTargetDelay(self, params)} |->
    Bind([makeup_delay \in {
        IF NAN \in {target, self.sample_delay, self.sample_delay_increment}
        THEN NAN
        ELSE (self.sample_delay + MulQ(SAMPLE_DELAY_MULTIPLIER, target - self.sample_delay))
                - (self.sample_delay + MulShift(self.sample_delay_increment, frames, 6))} |->
        [ self |->
            [ self EXCEPT
                !.feedback_memories = Each(LAMBDA c : Each(LAMBDA j :
                    WrapBuffer(self.feedback_memories[c][j], self.max_feedback_size))),
                !.prev_pre_low_cut_hz = pl.prev,
                !.pre_low_coeff = pl.coeff,
                !.prev_pre_high_cut_hz = ph.prev,
                !.pre_high_coeff = ph.coeff,
                !.prev_low_shelf_cut_hz = ls.prev,
                !.low_shelf_coeff = ls.coeff,
                !.prev_high_shelf_cut_hz = hs.prev,
                !.high_shelf_coeff = hs.coeff,
                !.prev_mix_val = mix_val,
                !.dry_amp = dry_amp,
                !.wet_amp = wet_amp,
                !.prev_low_shelf_gain_db = low_shelf_gain_db,
                !.low_shelf_amp = low_shelf_amp,
                !.prev_high_shelf_gain_db = high_shelf_gain_db,
                !.high_shelf_amp = high_shelf_amp,
                !.width_coeff = width_coeff,
                !.prev_decay_val = IF changed THEN decay_val ELSE @,
                !.prev_size_val = size_val,
                !.size_mult_v = size_mult,
                !.decays = decays,
                !.delays = delays,
                !.prev_chorus_freq_hz = chorus_freq,
                !.chorus_increment_real_v =
                    IF self.prev_chorus_freq_hz # chorus_freq THEN Cos(angle) ELSE @,
                !.chorus_increment_imaginary_v =
                    IF self.prev_chorus_freq_hz # chorus_freq THEN Sin(angle) ELSE @,
                !.chorus_phase = (@ + frames * chorus_phase_increment) % P_ONE,
                !.chorus_amount = chorus_amount ],
          reg |->
            [ pre_low_coeff |-> pl.current,
              pre_high_coeff |-> ph.current,
              low_shelf_coeff |-> ls.current,
              high_shelf_coeff |-> hs.current,
              dry_amp |-> self.dry_amp,
              wet_amp |-> self.wet_amp,
              low_shelf_amp |-> self.low_shelf_amp,
              high_shelf_amp |-> self.high_shelf_amp,
              width_coeff |-> self.width_coeff,
              decays |-> self.decays,
              chorus_real |-> Each(LAMBDA j :
                  Cos(V_CHORUS_PHASE_OFFSET[j] * NETWORK_OFFSET + phase)),
              chorus_imaginary |-> Each(LAMBDA j :
                  Sin(V_CHORUS_PHASE_OFFSET[j] * NETWORK_OFFSET + phase)),
              chorus_amount |-> self.chorus_amount,
              sample_delay |-> self.sample_delay,
              delay_increment |-> self.sample_delay_increment ],
          delta |->
            [ pre_low_coeff |-> pl.delta,
              pre_high_coeff |-> ph.delta,
              low_shelf_coeff |-> ls.delta,
              high_shelf_coeff |-> hs.delta,
              dry_amp |-> IF self.prev_mix_val # mix_val
                          THEN MulQ(tick_increment, dry_amp - self.dry_amp) ELSE 0,
              wet_amp |-> IF self.prev_mix_val # mix_val
                          THEN MulQ(tick_increment, wet_amp - self.wet_amp) ELSE 0,
              low_shelf_amp |->
                IF self.prev_low_shelf_gain_db # low_shelf_gain_db
                THEN MulQ(tick_increment, low_shelf_amp - self.low_shelf_amp) ELSE 0,
              high_shelf_amp |->
                IF self.prev_high_shelf_gain_db # high_shelf_gain_db
                THEN MulQ(tick_increment, high_shelf_amp - self.high_shelf_amp) ELSE 0,
              width_coeff |-> MulQ(tick_increment, width_coeff - self.width_coeff),
              decays |->
                IF changed
                THEN Each(LAMBDA c : Each(LAMBDA j :
                         MulQ(tick_increment, decays[c][j] - self.decays[c][j])))
                ELSE Each(LAMBDA c : V4(0)),
              chorus_amount |-> Each(LAMBDA j :
                  MulQ(tick_increment, chorus_amount[j] - self.chorus_amount[j])),
              delay_increment |-> DeltaDelayIncrement(makeup_delay, frames) ],
          target |-> target ]
    ])])])])])])])])])])])])])])])])])])])])])])])])])])

---------------------------------------------------------------------------
(* Reverb::process_block: the process loop                                 *)

\* Matrix::sum_rows
SumRows(m) == VAdd(VAdd(VAdd(m[1], m[2]), m[3]), m[4])

\* Matrix::transpose
Transpose(m) == Each(LAMBDA k : <<m[1][k], m[2][k], m[3][k], m[4][k]>>)

\* poly_utils::mul_add_f32 with a splat first operand
MulAddSplat(x, b, c) == <<x + MulQ(b[1], c), x + MulQ(b[2], c),
                          x + MulQ(b[3], c), x + MulQ(b[4], c)>>

\* Matrix::polynomial_interpolation_matrix for one lane
PolynomialInterpolation(t_from) ==
    LET t_prev == t_from + ONE
        t_to == t_from - ONE
        t_next == t_from - 2 * ONE
        t_prev_from == MulQ(t_prev, t_from)
        t_to_next == MulQ(t_to, t_next)
    IN  << MulQ(MulQ(t_from, t_to_next), F(-1, 6)),
           MulQ(MulQ(t_prev, t_to_next), F(1, 2)),
           MulQ(MulQ(t_prev_from, t_next), F(-1, 2)),
           MulQ(MulQ(t_prev_from, t_to), F(1, 6)) >>

\* Matrix::catmull_interpolation_matrix for one lane
CatmullInterpolation(t) ==
    LET half_t == MulQ(t, F(1, 2))
        half_t2 == MulQ(t, half_t)
        half_t3 == MulQ(half_t2, t)
        half_three_t3 == half_t3 * 3
    IN  << half_t2 * 2 - half_t3 - half_t,
           (half_three_t3 - half_t2 * 5) + ONE,
           (half_t + half_t2 * 4) - half_three_t3,
           half_t3 - half_t2 >>

\* Matrix::multiply_and_sum_rows for one lane: weights against four taps
MultiplyAndSum(w, v) ==
    IF v = <<0, 0, 0, 0>> THEN 0
    ELSE MulQ(w[1], v[1]) + MulQ(w[2], v[2]) + MulQ(w[3], v[3]) + MulQ(w[4], v[4])

\* four consecutive elements of a buffer
Taps(buf, i) == <<Load(buf, i), Load(buf, i + 1), Load(buf, i + 2), Load(buf, i + 3)>>

\* a feedback read that takes the floored offset as the index
FeedbackReadIndexUnmasked(self, offset) ==
    ((self.write_index * D_ONE - offset) \div D_ONE) + EXTRA_LOOKUP_SAMPLE

\* where the 4 elements of a feedback read with an offset (D) start
FeedbackReadIndex(self, offset) ==
    BitAnd((self.write_index * D_ONE - offset) \div D_ONE, self.feedback_mask)
        + EXTRA_LOOKUP_SAMPLE

\* Reverb::read_feedback_interpolated, offset in D
ReadFeedbackInterpolated(self, memories, offset) ==
    Each(LAMBDA j :
        LET write_offset == self.write_index * D_ONE - offset[j]
            t == (write_offset % D_ONE) * K
        IN  MultiplyAndSum(PolynomialInterpolation(t),
                           Taps(memories[j], FeedbackReadIndex(self, offset[j]))))

\* where a lane of an allpass read with an offset reads
AllpassReadIndex(self, offset) ==
    BitAnd(self.write_index * 4 - offset, self.allpass_mask)

\* where the 4 elements of an allpass store start
AllpassWriteIndex(self) == BitAnd(self.write_index * 4, self.allpass_mask)

\* where a feedback store goes
FeedbackWriteIndex(self) == self.write_index + EXTRA_LOOKUP_SAMPLE

\* Reverb::read_allpass
ReadAllpass(self, memories, offset) ==
    Each(LAMBDA j : Load(memories, AllpassReadIndex(self, offset[j])))

\* the two channels read with the weights w at index
StereoTaps(m, w, index) ==
    << MultiplyAndSum(w, Taps(m.left, index)), MultiplyAndSum(w, Taps(m.right, index)) >>

\* where the 4 elements of a read of the stereo ring start, past in D
StereoReadIndex(m, past) == BitAnd(m.offset - (past \div D_ONE) - 2, m.bitmask)

\* StereoMemory::get_interpolated: lanes 0 and 1 of the result, past in D
StereoMemoryGetInterpolated(m, past) ==
    StereoTaps(m,
               CatmullInterpolation((((past \div D_ONE) * D_ONE) - past) * K + ONE),
               StereoReadIndex(m, past))

\* the rows of m plus other_feedback plus each row's adjacent_feedback
AddFeedback(m, other_feedback, adjacent_feedback) ==
    Each(LAMBDA c : VAdd(VAdd(other_feedback, m[c]), V4(adjacent_feedback[c])))

\* other_feedback for the sum of the rows
OtherFeedback(total_rows) ==
    MulAddSplat(MulQ(ReduceSum(total_rows), F(1, 4)), total_rows, NEG_ONE_HALF)

\* the mixing of one matrix of voices: every row plus other_feedback plus
\* the row's own adjacent_feedback
Mix4(m) ==
    AddFeedback(m, OtherFeedback(SumRows(m)),
                VScale(SumRows(Transpose(m)), NEG_ONE_HALF))

\* buf[i..i + 4] = s
Store4(buf, i, s) ==
    Store(Store(Store(Store(buf, i, s[1]), i + 1, s[2]), i + 2, s[3]), i + 3, s[4])

\* a register of the original code, which forgot to increment
\* low_shelf_amp, pre_low_coeff, pre_high_coeff and low_shelf_coeff
NotIncremented(current, delta) == current

\* `current_* += delta_*` at the end of an iteration of the process loop
Incremented(current, delta) == current + delta

\* the taps <<c, j, i>> of the feedback reads with the offsets that take a
\* cell past the end of the ring, max_feedback_size + k with k in 1..3,
\* while the cell k it stands for holds something else
StaleTaps(self, feedback_offsets) ==
    UNION { UNION { LET start == FeedbackReadIndex(self, feedback_offsets[c][j])
                        buf == self.feedback_memories[c][j]
                    IN  IF start + 3 <= self.max_feedback_size
                        THEN {}
                        ELSE { <<c, j, i>> : i \in
                                { i \in 0..3 :
                                    /\ start + i > self.max_feedback_size
                                    /\ Load(buf, start + i)
                                         # Load(buf, start + i - self.max_feedback_size) } }
                    : j \in Lanes }
            : c \in Containers }

\* one iteration of the process loop on the input frame (l, r): the engine,
\* the registers and the output frame after it
Frame(self, reg, delta, l, r) ==
    \* tick chorus
    Bind([chorus_amount \in {VAdd(reg.chorus_amount, delta.chorus_amount)} |->
    Bind([chorus_real \in {VSub(VScale(reg.chorus_real, self.chorus_increment_real_v),
             VScale(reg.chorus_imaginary, self.chorus_increment_imaginary_v))} |->
    Bind([chorus_imaginary \in {VAdd(VScale(reg.chorus_imaginary, self.chorus_increment_real_v),
             VScale(chorus_real, self.chorus_increment_imaginary_v))} |->
    \* feedback offsets and reads
    Bind([real_drift \in {VMul(chorus_real, chorus_amount)} |->
    Bind([imaginary_drift \in {VMul(chorus_imaginary, chorus_amount)} |->
    Bind([feedback_offsets \in {<< VAdd(self.delays[1], real_drift),
                                   VSub(self.delays[2], real_drift),
                                   VAdd(self.delays[3], imaginary_drift),
                                   VSub(self.delays[4], imaginary_drift) >>} |->
    Bind([feedback_reads \in {Each(LAMBDA c :
            ReadFeedbackInterpolated(self, self.feedback_memories[c],
                                     feedback_offsets[c]))} |->
    \* input and pre-filters
    Bind([input \in {<<l, r, l, r>>} |->
    Bind([pre_high_filter \in {OnePoleFilterTick(self.pre_high_filter, input, reg.pre_high_coeff)} |->
    Bind([pre_low_filter \in {OnePoleFilterTick(self.pre_low_filter, input, reg.pre_low_coeff)} |->
    Bind([scaled_input \in {VScale(VSub(pre_low_filter.current_state, pre_high_filter.current_state),
               INPUT_SCALE)} |->
    \* allpass filters
    Bind([allpass_reads \in {Each(LAMBDA c :
            ReadAllpass(self, self.allpass_memories[c], self.allpass_offsets[c]))} |->
    Bind([allpass_delay_inputs \in {Each(LAMBDA c :
            VSub(feedback_reads[c], VScale(allpass_reads[c], ALLPASS_FEEDBACK)))} |->
    Bind([writes_mixed \in {Mix4(Each(LAMBDA c :
            VAdd(allpass_reads[c], VScale(allpass_delay_inputs[c], ALLPASS_FEEDBACK))))} |->
    \* shelf filters
    Bind([high_shelf_filters \in {Each(LAMBDA c :
            OnePoleFilterTick(self.high_shelf_filters[c], writes_mixed[c],
                              reg.high_shelf_coeff))} |->
    Bind([writes_high \in {Each(LAMBDA c :
            VAdd(high_shelf_filters[c].current_state,
                 VScale(VSub(writes_mixed[c], high_shelf_filters[c].current_state),
                        reg.high_shelf_amp)))} |->
    Bind([low_shelf_filters \in {Each(LAMBDA c :
            OnePoleFilterTick(self.low_shelf_filters[c], writes_high[c],
                              reg.low_shelf_coeff))} |->
    Bind([writes \in {Each(LAMBDA c :
            VSub(writes_high[c],
                 VScale(low_shelf_filters[c].current_state, reg.low_shelf_amp)))} |->
    \* decay and the feedback store
    Bind([decays \in {Each(LAMBDA c : VAdd(reg.decays[c], delta.decays[c]))} |->
    Bind([stores \in {Each(LAMBDA c : VMul(decays[c], writes[c]))} |->
    \* second set of allpass filters
    Bind([feed_forward_vals \in {Mix4(stores)} |->
    Bind([total \in {VAdd(SumRows(writes),
             VScale(SumRows(Each(LAMBDA c : VMul(feed_forward_vals[c], decays[c]))),
                    FEED_FORWARD_SCALE))} |->
    \* the delay ring
    Bind([pushed \in {VAdd(total, SwapVoices(total))} |->
    Bind([stereo_memory \in {StereoMemoryPush(self.stereo_memory, pushed[1], pushed[2])} |->
    \* with a NaN the interpolation weights are NaN, whatever index the
    \* unchecked cast gives
    Bind([wet \in {IF reg.sample_delay = NAN
                   THEN V4(NAN)
                   ELSE StereoMemoryGetInterpolated(stereo_memory, reg.sample_delay)} |->
    \* width and mix
    Bind([mid \in {IF NAN \in {wet[1], wet[2]}
                   THEN NAN ELSE MulQ(wet[1] + wet[2], F(1, 2))} |->
    Bind([side \in {IF NAN \in {wet[1], wet[2]}
                    THEN NAN ELSE MulQ(wet[2] - wet[1], reg.width_coeff)} |->
    Bind([delay_increment \in {IF NAN \in {reg.delay_increment, delta.delay_increment}
                               THEN NAN
                               ELSE reg.delay_increment + delta.delay_increment} |->
        [ self |->
            [ self EXCEPT
                !.pre_high_filter = pre_high_filter,
                !.pre_low_filter = pre_low_filter,
                !.allpass_memories = Each(LAMBDA c :
                    Store4(self.allpass_memories[c], AllpassWriteIndex(self),
                           VAdd(scaled_input, allpass_delay_inputs[c]))),
                !.high_shelf_filters = high_shelf_filters,
                !.low_shelf_filters = low_shelf_filters,
                !.feedback_memories = Each(LAMBDA c : Each(LAMBDA j :
                    Store(self.feedback_memories[c][j],
                          FeedbackWriteIndex(self), stores[c][j]))),
                !.stereo_memory = stereo_memory,
                !.write_index = BitAnd(self.write_index + 1, self.feedback_mask) ],
          reg |->
            [ pre_low_coeff |-> Incremented(reg.pre_low_coeff, delta.pre_low_coeff),
              pre_high_coeff |-> Incremented(reg.pre_high_coeff, delta.pre_high_coeff),
              low_shelf_coeff |-> Incremented(reg.low_shelf_coeff, delta.low_shelf_coeff),
              high_shelf_coeff |-> reg.high_shelf_coeff + delta.high_shelf_coeff,
              dry_amp |-> reg.dry_amp + delta.dry_amp,
              wet_amp |-> reg.wet_amp + delta.wet_amp,
              low_shelf_amp |-> Incremented(reg.low_shelf_amp, delta.low_shelf_amp),
              high_shelf_amp |-> reg.high_shelf_amp + delta.high_shelf_amp,
              width_coeff |-> reg.width_coeff + delta.width_coeff,
              decays |-> decays,
              chorus_real |-> chorus_real,
              chorus_imaginary |-> chorus_imaginary,
              chorus_amount |-> chorus_amount,
              sample_delay |->
                ClampF32(IF NAN \in {reg.sample_delay, delay_increment}
                         THEN NAN
                         ELSE reg.sample_delay
                                + ((delay_increment + 32) \div (I_ONE \div D_ONE)),
                         MIN_DELAY, MAX_SAMPLE_RATE * D_ONE),
              delay_increment |-> delay_increment ],
          l |-> IF NAN \in {mid, side}
                THEN NAN ELSE MulQ(reg.wet_amp, mid - side) + MulQ(reg.dry_amp, l),
          r |-> IF NAN \in {mid, side}
                THEN NAN ELSE MulQ(reg.wet_amp, mid + side) + MulQ(reg.dry_amp, r),
          used |->
            [ chorus_amount |-> chorus_amount,
              chorus_real |-> chorus_real,
              chorus_imaginary |-> chorus_imaginary,
              feedback_offsets |-> feedback_offsets,
              stale_taps |-> StaleTaps(self, feedback_offsets),
              allpass_reads |-> allpass_reads,
              allpass_stores |-> Each(LAMBDA c :
                    VAdd(scaled_input, allpass_delay_inputs[c])),
              stereo_offset |-> stereo_memory.offset ] ]
    ])])])])])])])])])])])])])])])])])])])])])])])])])])])])

---------------------------------------------------------------------------
(* Reverb::process                                                         *)

\* what an iteration of the process loop starts with: the write index and
\* the current_* values it reads the ring, spreads the wet signal and mixes
\* with
AppliedTo(self, reg, used) ==
    [ write_index |-> self.write_index,
      sample_delay |-> reg.sample_delay,
      width_coeff |-> reg.width_coeff,
      dry_amp |-> reg.dry_amp,
      wet_amp |-> reg.wet_amp,
      pre_low_coeff |-> reg.pre_low_coeff,
      pre_high_coeff |-> reg.pre_high_coeff,
      low_shelf_coeff |-> reg.low_shelf_coeff,
      high_shelf_coeff |-> reg.high_shelf_coeff,
      low_shelf_amp |-> reg.low_shelf_amp,
      high_shelf_amp |-> reg.high_shelf_amp,
      chorus_before |-> <<reg.chorus_real, reg.chorus_imaginary>>,
      used |-> used ]

\* the loop state after one more frame
AfterFrame(st, f) ==
    [ self |-> f.self, reg |-> f.reg,
      outL |-> Append(st.outL, f.l), outR |-> Append(st.outR, f.r),
      applied |-> Append(st.applied, AppliedTo(st.self, st.reg, f.used)) ]

\* `for (l, r) in left.iter_mut().zip(right.iter_mut())` over the frames
\* lo..hi of the buffers, the first half of the range before the second
RECURSIVE RunFrames(_, _, _, _, _, _)
RunFrames(st, delta, left, right, lo, hi) ==
    IF lo = hi
    THEN AfterFrame(st, Frame(st.self, st.reg, delta, left[lo], right[lo]))
    ELSE Bind([first \in {RunFrames(st, delta, left, right, lo, (lo + hi) \div 2)} |->
             IF first.self.write_index >= 0
             THEN RunFrames(first, delta, left, right, ((lo + hi) \div 2) + 1, hi)
             ELSE first])

\* the end of process_block: the delay state is stored back
StoreDelay(run, target) ==
    [ self |-> [ run.self EXCEPT
                    !.sample_delay_increment = run.reg.delay_increment,
                    !.sample_delay = run.reg.sample_delay ],
      outL |-> run.outL,
      outR |-> run.outR,
      applied |-> run.applied,
      target |-> target ]

\* the process loop of a block, after its preparation p
RunBlock(p, left, right, start, frames) ==
    StoreDelay(RunFrames([ self |-> p.self, reg |-> p.reg, outL |-> <<>>,
                           outR |-> <<>>, applied |-> <<>> ],
                         p.delta, left, right, start + 1, start + frames),
               p.target)

\* Reverb::process_block on the frames start+1 .. start+frames
ProcessBlock(self, left, right, start, frames, params) ==
    RunBlock(Prepare(self, frames, params), left, right, start, frames)

\* process without its first assertion
NoDidInitAssert(self) == TRUE

\* `assert!(self.did_init)`
DidInitAssert(self) == self.did_init

\* `&mut right[0..total_frames]` is in bounds
RightSliceOk(left, right) == Len(left) <= Len(right)

\* the rest of the buffer as one block
WholeBuffer(total_frames, processed_frames) == total_frames - processed_frames

\* the size of the next block
BlockFrames(total_frames, processed_frames) ==
    Min(total_frames - processed_frames, MAX_BLOCK_SIZE)

\* the loop state after the block b of that many frames
AfterBlock(acc, frames, b) ==
    [ self |-> b.self,
      outL |-> acc.outL \o b.outL,
      outR |-> acc.outR \o b.outR,
      applied |-> acc.applied \o b.applied,
      processed_frames |-> acc.processed_frames + frames,
      blocks |-> Append(acc.blocks, <<acc.processed_frames, frames>>),
      targets |-> Append(acc.targets, b.target) ]

\* the `while processed_frames < total_frames` loop
RECURSIVE ProcessLoop(_, _, _, _)
ProcessLoop(acc, left, right, params) ==
    IF acc.processed_frames < Len(left)
    THEN Bind([frames \in {BlockFrames(Len(left), acc.processed_frames)} |->
         Bind([next \in {AfterBlock(acc, frames,
                        ProcessBlock(acc.self, left, right, acc.processed_frames,
                                     frames, params))} |->
             IF next.processed_frames > 0
             THEN ProcessLoop(next, left, right, params)
             ELSE next])])
    ELSE acc

\* what process hands back after its loop
Returned(run, left, right) ==
    [ panicked |-> FALSE,
      self |-> run.self,
      left |-> run.outL,
      right |-> run.outR \o SubSeq(right, Len(left) + 1, Len(right)),
      blocks |-> run.blocks,
      targets |-> run.targets,
      applied |-> run.applied ]

\* Reverb::process: whether it panicked, the engine and the two buffers after
\* it, the blocks it processed as <<frames before, frames>> and the pre-delay
\* target of each
ProcessOp(self, left, right, params) ==
    IF ~DidInitAssert(self) \/ ~RightSliceOk(left, right)
    THEN [ panicked |-> TRUE, self |-> self, left |-> left, right |-> right,
           blocks |-> <<>>, targets |-> <<>>, applied |-> <<>> ]
    ELSE Returned(ProcessLoop([ self |-> self, outL |-> <<>>, outR |-> <<>>,
                                applied |-> <<>>,
                                processed_frames |-> 0, blocks |-> <<>>,
                                targets |-> <<>> ],
                              left, right, params),
                  left, right)

\* a frame of the call read the stereo ring with a NaN as the delay
ReadsNaN(r) == \E i \in 1..Len(r.applied) : r.applied[i].sample_delay = NAN

\* how a process call can end. `past.to_int_unchecked()` of a NaN in
\* StereoMemory::get_interpolated is undefined behaviour: the cast gives some
\* integer and the call returns, its samples NaN, or the build traps on it
Outcomes(r) == IF ReadsNaN(r) THEN {r, [r EXCEPT !.panicked = TRUE]} ELSE {r}

---------------------------------------------------------------------------
(* The engine driven by a host                                             *)

MaxInits == 2       \* init calls in a behaviour
MaxCalls == 2       \* process and reset calls in a behaviour
LongFrames == 600   \* frames of the long buffer

\* the base rate, a rate between it and its double, its double and the
\* highest rate
SampleRates == {BASE_SAMPLE_RATE, 48000, 2 * BASE_SAMPLE_RATE, MAX_SAMPLE_RATE}

\* every field outside its admissible range
WildParams ==
    [ mix |-> F(3, 2),
      size |-> F(-1, 2),
      decay |-> F(100, 1),
      delay |-> F(1, 1),
      width |-> F(2, 1),
      chorus_freq_hz |-> F(20, 1),
      chorus_amount |-> F(3, 2),
      pre_low_cut_hz |-> FD(5, 1),
      pre_high_cut_hz |-> FD(30000, 1),
      low_shelf_cut_hz |-> FD(10, 1),
      low_shelf_gain_db |-> F(3, 1),
      high_shelf_cut_hz |-> FD(25000, 1),
      high_shelf_gain_db |-> F(-12, 1) ]

\* every field outside its admissible range, on the other side
WildOpposite ==
    [ mix |-> F(-1, 2),
      size |-> F(3, 2),
      decay |-> F(1, 100),
      delay |-> F(-1, 1),
      width |-> F(-2, 1),
      chorus_freq_hz |-> F(1, 1000),
      chorus_amount |-> F(-1, 2),
      pre_low_cut_hz |-> FD(30000, 1),
      pre_high_cut_hz |-> FD(5, 1),
      low_shelf_cut_hz |-> FD(25000, 1),
      low_shelf_gain_db |-> F(-12, 1),
      high_shelf_cut_hz |-> FD(10, 1),
      high_shelf_gain_db |-> F(3, 1) ]

ParamChoices == {DefaultParams, WildParams, WildOpposite}

\* the host's audio: samples of magnitude below 1.0, the channels differing
LeftInput(n) == [i \in 1..n |-> (((i * 37) % 41) - 20) * (ONE \div 32)]
RightInput(n) == [i \in 1..n |-> (((i * 23) % 31) - 15) * (ONE \div 32)]

\* <<left.len(), right.len()>> of the short calls: empty, equal, right
\* shorter, right longer
ShortShapes == {<<0, 0>>, <<1, 1>>, <<2, 1>>, <<1, 2>>}

NoCall == [sample_rate |-> 0]

Init ==
    /\ eng = DefaultReverb
    /\ pre = DefaultReverb
    /\ last = "new"
    /\ call = NoCall
    /\ outL = <<>>
    /\ outR = <<>>
    /\ blocks = <<>>
    /\ targets = <<>>
    /\ applied = <<>>
    /\ panicked = FALSE
    /\ ninit = 0
    /\ ncall = 0

\* reverb.init(sample_rate)
DoInit ==
    /\ ~panicked
    /\ ninit < MaxInits
    /\ \E sample_rate \in SampleRates :
        /\ eng' = InitOp(eng, sample_rate)
        /\ call' = [ sample_rate |-> sample_rate,
                     write_index_before |-> eng.write_index,
                     did_init_before |-> eng.did_init ]
    /\ pre' = DefaultReverb
    /\ last' = "init"
    /\ ninit' = ninit + 1
    /\ outL' = <<>>
    /\ outR' = <<>>
    /\ blocks' = <<>>
    /\ targets' = <<>>
    /\ applied' = <<>>
    /\ UNCHANGED <<panicked, ncall>>

\* reverb.process(&mut left, &mut right, &params)
Process(left, right, params) ==
    \E r \in Outcomes(ProcessOp(eng, left, right, params)) :
        /\ eng' = r.self
        /\ pre' = eng
        /\ last' = "process"
        /\ call' = [left |-> left, right |-> right, params |-> params]
        /\ outL' = r.left
        /\ outR' = r.right
        /\ blocks' = r.blocks
        /\ targets' = r.targets
        /\ applied' = r.applied
        /\ panicked' = r.panicked
        /\ ncall' = ncall + 1
        /\ UNCHANGED ninit

\* a short call, on an engine in any state
DoProcess ==
    /\ ~panicked
    /\ ncall < MaxCalls
    /\ \E shape \in ShortShapes, params \in ParamChoices :
        Process(LeftInput(shape[1]), RightInput(shape[2]), params)

\* a buffer of several blocks, as the first call of the first session
DoProcessLong ==
    /\ ~panicked
    /\ last = "init"
    /\ ninit = 1
    /\ ncall = 0
    /\ ncall < MaxCalls
    /\ Process(LeftInput(LongFrames), RightInput(LongFrames), DefaultParams)

\* reverb.reset()
DoReset ==
    /\ ~panicked
    /\ ncall < MaxCalls
    /\ eng' = ResetOp(eng)
    /\ pre' = eng
    /\ last' = "reset"
    /\ call' = NoCall
    /\ outL' = <<>>
    /\ outR' = <<>>
    /\ blocks' = <<>>
    /\ targets' = <<>>
    /\ applied' = <<>>
    /\ ncall' = ncall + 1
    /\ UNCHANGED <<panicked, ninit>>

Next == DoInit \/ DoProcess \/ DoProcessLong \/ DoReset

Spec == Init /\ [][Next]_vars

---------------------------------------------------------------------------
(* The engine under a steady signal, one buffer after the other: the       *)
(* sine_wave test, and a full-scale square wave in short buffers and under *)
(* settings of mix and width                                               *)

FullScaleFrames == 768   \* frames of the full-scale test
WetFrames == 768         \* frames of the tests that wait for the wet signal
ToggleBlocks == 4        \* blocks of the tests that toggle mix
RingFrames == 768        \* frames of the test that runs over the end of the ring
RingLead == 650          \* frames of it before write_index is back at 0
NanFrames == 2           \* frames of the test with a NaN
SweepCalls == 3          \* buffers of the test that sweeps every setting

\* the constants of the sine_wave test
SineWave ==
    [ amplitude |-> F(1, 4), freq_hz |-> 440, buffer_len |-> 256,
      sample_rate |-> 48000, iterations |-> 16 ]

\* sine_wave: the same buffer of the sine in every iteration, on both
\* channels, the default params with delay = 0
SineTest ==
    [ wave |-> "sine",
      sample_rate |-> SineWave.sample_rate,
      buffer_len |-> SineWave.buffer_len,
      frames |-> SineWave.iterations * SineWave.buffer_len,
      params |-> [DefaultParams EXCEPT !.delay = 0] ]

\* the lengths of the buffers a host hands over in the full-scale test:
\* shorter than a block, and a whole block
FullScaleBuffers == {8, MAX_BLOCK_SIZE}

\* a square wave of amplitude 1.0 and 100 frames a period at 44.1 kHz, on
\* both channels, the default params with mix = 0.1
FullScaleTest(buffer_len) ==
    [ wave |-> "square",
      sample_rate |-> BASE_SAMPLE_RATE,
      buffer_len |-> buffer_len,
      frames |-> FullScaleFrames,
      params |-> [DefaultParams EXCEPT !.mix = F(1, 10)] ]

\* the full-scale square wave with mix = 0, in buffers shorter than a block
\* and longer than one
MixZeroBuffers == {48, 200}

MixZeroTest(buffer_len) ==
    [ wave |-> "square",
      sample_rate |-> BASE_SAMPLE_RATE,
      buffer_len |-> buffer_len,
      frames |-> WetFrames,
      params |-> [DefaultParams EXCEPT !.mix = 0] ]

\* the full-scale square wave with width = -1 and mix = 1: the output is the
\* wet signal
WidthTest ==
    [ wave |-> "square",
      sample_rate |-> BASE_SAMPLE_RATE,
      buffer_len |-> 96,
      frames |-> WetFrames,
      params |-> [DefaultParams EXCEPT !.width = 0 - ONE, !.mix = ONE] ]

\* mix = 0 in one buffer and mix = 1 in the next, each buffer a block: a
\* whole block, and a quarter of one
ToggleBuffers == {MAX_BLOCK_SIZE, MAX_BLOCK_SIZE \div 4}

ToggleTest(buffer_len) ==
    [ wave |-> "square",
      sample_rate |-> BASE_SAMPLE_RATE,
      buffer_len |-> buffer_len,
      frames |-> ToggleBlocks * buffer_len,
      params |-> [DefaultParams EXCEPT !.mix = 0],
      alternate |-> [DefaultParams EXCEPT !.mix = ONE] ]

\* the params of the silence before a test
SilentParams == [DefaultParams EXCEPT !.delay = 0]

\* the full-scale square wave after so many frames of silence that the
\* feedback memories and the stereo ring are written up to their end and
\* from their start again
RingTest ==
    [ wave |-> "square",
      sample_rate |-> BASE_SAMPLE_RATE,
      buffer_len |-> MAX_BLOCK_SIZE \div 2,
      frames |-> RingFrames,
      params |-> SilentParams,
      silence |-> DefaultReverb.stereo_memory.size - RingLead ]

\* the full-scale square wave in whole blocks, with the shortest delays
\* (size = 0) and the widest chorus, after so many frames of silence that the
\* feedback memories are written from their start again while the chorus
\* oscillator is near -1 in the lanes of the shortest delays
ShortDelayTest ==
    [ wave |-> "square",
      sample_rate |-> BASE_SAMPLE_RATE,
      buffer_len |-> MAX_BLOCK_SIZE,
      frames |-> RingFrames,
      params |-> [SilentParams EXCEPT !.size = 0, !.chorus_amount = ONE],
      silence |-> 4 * InitOp(DefaultReverb, BASE_SAMPLE_RATE).max_feedback_size
                    - RingLead ]

\* the widest chorus with size = 1 in one buffer and size = 0 in the next,
\* each buffer a block
ShrinkTest ==
    [ wave |-> "square",
      sample_rate |-> BASE_SAMPLE_RATE,
      buffer_len |-> MAX_BLOCK_SIZE \div 4,
      frames |-> ToggleBlocks * (MAX_BLOCK_SIZE \div 4),
      params |-> [DefaultParams EXCEPT !.size = ONE, !.chorus_amount = ONE],
      alternate |-> [DefaultParams EXCEPT !.size = 0, !.chorus_amount = ONE] ]

\* every setting beyond one end of its range in one buffer and beyond the
\* other end in the next, each buffer a block and a quarter of one
SweepTest ==
    [ wave |-> "square",
      sample_rate |-> BASE_SAMPLE_RATE,
      buffer_len |-> MAX_BLOCK_SIZE + (MAX_BLOCK_SIZE \div 4),
      frames |-> SweepCalls * (MAX_BLOCK_SIZE + (MAX_BLOCK_SIZE \div 4)),
      params |-> WildParams,
      alternate |-> WildOpposite ]

\* frames of the full-scale square wave one by one, params.delay a NaN
NanTest ==
    [ wave |-> "square",
      sample_rate |-> BASE_SAMPLE_RATE,
      buffer_len |-> 1,
      frames |-> NanFrames,
      params |-> [DefaultParams EXCEPT !.delay = NAN] ]

Tests ==
    {SineTest} \cup {FullScaleTest(b) : b \in FullScaleBuffers}
        \cup {MixZeroTest(b) : b \in MixZeroBuffers}
        \cup {WidthTest}
        \cup {ToggleTest(b) : b \in ToggleBuffers}
        \cup {RingTest}
        \cup {NanTest}
        \cup {ShortDelayTest}
        \cup {ShrinkTest}
        \cup {SweepTest}

\* the i-th sample of the input buffer of sine_wave, i from 1
SineInput(i) ==
    MulQ(Sin(MulQ(DivQ(((i - 1) * SineWave.freq_hz) % SineWave.sample_rate,
                       SineWave.sample_rate),
                  TAU_Q)),
         SineWave.amplitude)

\* the buffer a test hands to process after it has handed over done frames
TestBuffer(test, done) ==
    [ i \in 1..Min(test.buffer_len, test.frames - done) |->
        IF test.wave = "sine"
        THEN SineInput(i)
        ELSE IF (((done + i) \div 50) % 2) = 0 THEN ONE ELSE 0 - ONE ]

\* the params a test hands to process after it has handed over done frames
TestParams(test, done) ==
    IF "alternate" \in DOMAIN test /\ ((done \div test.buffer_len) % 2) = 1
    THEN test.alternate
    ELSE test.params

\* what the last frame of a call was processed with, if it had a frame
LastApplied(frames) == IF frames = <<>> THEN <<>> ELSE <<frames[Len(frames)]>>

\* Reverb::process of an engine just initialised, on buffers of `frames` > 0
\* frames of silence with params whose delay is 0: the memories and the
\* filters stay zero and the pre-delay stays where it is (its target is
\* MIN_DELAY), so every frame only moves write_index and the offset of the
\* stereo memory, and every block the chorus phase
ProcessSilence(self, frames, params) ==
    LET first == ProcessOp(self, <<0>>, <<0>>, params).self
        chorus_phase_increment ==
            MulQ(ChorusFreq(params), self.sample_rate_recip) \div 64
    IN  [ first EXCEPT
            !.write_index = BitAnd(self.write_index + frames, self.feedback_mask),
            !.stereo_memory.offset =
                BitAnd(self.stereo_memory.offset + frames,
                       self.stereo_memory.bitmask),
            !.chorus_phase =
                (self.chorus_phase + frames * chorus_phase_increment) % P_ONE ]

\* reverb.init(SAMPLE_RATE) on the new engine of a test
StartTest ==
    /\ last = "new"
    /\ \E test \in Tests :
        /\ eng' = InitOp(eng, test.sample_rate)
        /\ call' = [test |-> test, done |-> 0, previous |-> <<>>]
    /\ last' = "init"
    /\ ninit' = ninit + 1
    /\ UNCHANGED <<pre, outL, outR, blocks, targets, applied, panicked, ncall>>

\* reverb.process on buffers of silence, before the first buffer of a test
\* that starts with silence
LeadIn ==
    /\ last = "init"
    /\ "silence" \in DOMAIN call.test
    /\ eng' = ProcessSilence(eng, call.test.silence, call.test.params)
    /\ last' = "silence"
    /\ ncall' = ncall + 1
    /\ UNCHANGED <<pre, call, outL, outR, blocks, targets, applied, panicked,
                   ninit>>

\* reverb.process(&mut out_l, &mut out_r, &params) on the next buffer
NextBuffer ==
    /\ ~panicked
    /\ last \in {"init", "silence", "process"}
    /\ last = "init" => "silence" \notin DOMAIN call.test
    /\ call.done < call.test.frames
    /\ \E buffer \in {TestBuffer(call.test, call.done)} :
       \E r \in Outcomes(ProcessOp(eng, buffer, buffer,
                                    TestParams(call.test, call.done))) :
            /\ eng' = r.self
            /\ call' = [call EXCEPT !.done = @ + Len(buffer),
                                    !.previous = LastApplied(applied)]
            /\ outL' = r.left
            /\ outR' = r.right
            /\ blocks' = r.blocks
            /\ targets' = r.targets
            /\ applied' = r.applied
            /\ panicked' = r.panicked
    /\ pre' = eng
    /\ last' = "process"
    /\ ncall' = ncall + 1
    /\ UNCHANGED ninit

TestNext == StartTest \/ LeadIn \/ NextBuffer

TestSpec == Init /\ [][TestNext]_vars

---------------------------------------------------------------------------
(* Properties                                                              *)

\* the last call was a process call on the buffers and params of `call`
Processed == last = "process"

\* C1: on an engine init was never called on, process panics whatever the
\* buffer lengths and params are, and leaves the engine and both buffers as
\* they were, no block having been processed
ProcessBeforeInitPanics ==
    (Processed /\ ~pre.did_init)
        => /\ panicked
           /\ eng = pre
           /\ outL = call.left
           /\ outR = call.right
           /\ blocks = <<>>

\* process was called with non-empty buffers and wild params before any init
ProcessBeforeInitHappened ==
    /\ Processed
    /\ ~pre.did_init
    /\ Len(call.left) > 0
    /\ call.params = WildParams
    /\ panicked

\* C2: on an initialized engine process panics whenever the two buffers
\* differ in length, and then no block has been processed
LengthMismatchPanics ==
    (Processed /\ pre.did_init /\ Len(call.left) # Len(call.right))
        => (panicked /\ blocks = <<>> /\ eng = pre)

\* every sample of the two buffers as process left them is within [-1.0, 1.0]
BuffersWithinOne ==
    /\ \A i \in DOMAIN outL : Abs(outL[i]) <= ONE
    /\ \A i \in DOMAIN outR : Abs(outR[i]) <= ONE

ChunkStart(i) == (i - 1) * MAX_BLOCK_SIZE
ChunkFrames(n, i) == IF i * MAX_BLOCK_SIZE <= n THEN MAX_BLOCK_SIZE ELSE n - ChunkStart(i)
ChunkCount(n) == (n + MAX_BLOCK_SIZE - 1) \div MAX_BLOCK_SIZE

\* the engine and the output after process has been called on each chunk
\* from the i-th on, one call per chunk
RECURSIVE ChunkByChunk(_, _, _, _, _)
ChunkByChunk(acc, left, right, params, i) ==
    IF i > ChunkCount(Len(left))
    THEN acc
    ELSE Bind([r \in {ProcessOp(acc.self,
                               SubSeq(left, ChunkStart(i) + 1,
                                      ChunkStart(i) + ChunkFrames(Len(left), i)),
                               SubSeq(right, ChunkStart(i) + 1,
                                      ChunkStart(i) + ChunkFrames(Len(left), i)),
                               params)} |->
             ChunkByChunk([ self |-> r.self, left |-> acc.left \o r.left,
                            right |-> acc.right \o r.right,
                            panicked |-> acc.panicked \/ r.panicked ],
                          left, right, params, i + 1)])

\* C4: a process call on N frames works on consecutive blocks of
\* min(128, remaining) frames, each of 1 to 128 frames and together every
\* frame once and in order; the engine and the output after it are those of
\* one process call per chunk; with N = 0 the engine is as it was
BlocksAreSeparateCalls ==
    (Processed /\ ~panicked /\ Len(call.left) = Len(call.right))
        => /\ Len(blocks) = ChunkCount(Len(call.left))
           /\ \A i \in DOMAIN blocks :
                /\ blocks[i] = <<ChunkStart(i), ChunkFrames(Len(call.left), i)>>
                /\ blocks[i][2] \in 1..MAX_BLOCK_SIZE
                /\ blocks[i][2] = Min(MAX_BLOCK_SIZE, Len(call.left) - blocks[i][1])
           /\ (blocks # <<>> =>
                blocks[Len(blocks)][1] + blocks[Len(blocks)][2] = Len(call.left))
           /\ ChunkByChunk([self |-> pre, left |-> <<>>, right |-> <<>>,
                            panicked |-> FALSE],
                           call.left, call.right, call.params, 1)
                = [self |-> eng, left |-> outL, right |-> outR, panicked |-> FALSE]
           /\ (Len(call.left) = 0 => eng = pre)

\* a buffer of several blocks, the last one shorter, was processed
SeveralBlocksProcessed ==
    /\ Processed
    /\ ~panicked
    /\ Len(blocks) > 2
    /\ blocks[Len(blocks)][2] < MAX_BLOCK_SIZE
    /\ eng # pre
    /\ outL # call.left

\* the admissible range of each clamped field of ReverbParams
AdmissibleRange ==
    [ mix |-> <<0, ONE>>,
      size |-> <<0, ONE>>,
      decay |-> <<MIN_DECAY_SECONDS, MAX_DECAY_SECONDS>>,
      width |-> <<0 - ONE, ONE>>,
      chorus_freq_hz |-> <<MIN_CHORUS_FREQ, MAX_CHORUS_FREQ>>,
      chorus_amount |-> <<0, ONE>>,
      pre_low_cut_hz |-> <<MIN_CUTOFF_FREQ, MAX_CUTOFF_FREQ>>,
      pre_high_cut_hz |-> <<MIN_CUTOFF_FREQ, MAX_CUTOFF_FREQ>>,
      low_shelf_cut_hz |-> <<MIN_CUTOFF_FREQ, MAX_CUTOFF_FREQ>>,
      low_shelf_gain_db |-> <<MIN_SHELF_GAIN_DB, MAX_SHELF_GAIN_DB>>,
      high_shelf_cut_hz |-> <<MIN_CUTOFF_FREQ, MAX_CUTOFF_FREQ>>,
      high_shelf_gain_db |-> <<MIN_SHELF_GAIN_DB, MAX_SHELF_GAIN_DB>> ]

OutOfRange(params, field) ==
    \/ params[field] < AdmissibleRange[field][1]
    \/ params[field] > AdmissibleRange[field][2]

\* params with the field replaced by the nearest bound of its range
AtNearestBound(params, field) ==
    [ params EXCEPT ![field] =
        IF @ < AdmissibleRange[field][1] THEN AdmissibleRange[field][1]
        ELSE IF @ > AdmissibleRange[field][2] THEN AdmissibleRange[field][2]
        ELSE @ ]

\* the last call came out as r did
SameAsLastCall(r) ==
    /\ r.panicked = panicked
    /\ r.self = eng
    /\ r.left = outL
    /\ r.right = outR

\* C6: a process call with a mix, size, decay, width, chorus frequency,
\* chorus amount, cutoff or shelf gain outside its range does not panic, and
\* leaves the engine and the output that the same call leaves with that one
\* value at the nearest bound of its range
OutOfRangeIsNearestBound ==
    (Processed /\ pre.did_init /\ Len(call.left) = Len(call.right))
        => \A field \in DOMAIN AdmissibleRange :
              OutOfRange(call.params, field)
                  => /\ ~panicked
                     /\ SameAsLastCall(ProcessOp(pre, call.left, call.right,
                                                 AtNearestBound(call.params, field)))

\* a frame was processed with every clamped field above or below its range
OutOfRangeProcessed ==
    /\ Processed
    /\ pre.did_init
    /\ ~panicked
    /\ Len(call.left) > 0
    /\ Len(call.left) = Len(call.right)
    /\ \A field \in DOMAIN AdmissibleRange : OutOfRange(call.params, field)
    /\ call.params.width > ONE
    /\ eng.width_coeff # pre.width_coeff

\* C7: whatever params.delay is, the pre-delay target of a block is at most
\* 0.3 * sample_rate samples
DelayTargetWithinRange ==
    \A i \in DOMAIN targets : targets[i] <= MulQ(MAX_DELAY_SECONDS, eng.sample_rate)

\* C8: the engine after init(fs) is the one a freshly constructed engine is
\* after init(fs), whatever was called before
InitDependsOnRateOnly ==
    last = "init" => eng = InitOp(DefaultReverb, call.sample_rate)

\* init was called on an engine that had processed frames at another rate
InitAfterHistory ==
    /\ last = "init"
    /\ call.did_init_before
    /\ call.write_index_before > 0
    /\ call.sample_rate = 44100
    /\ ncall > 0

\* both state registers of a filter are zero
FilterIsZero(f) == f.current_state = V4(0) /\ f.filter_state = V4(0)

\* C9: after reset every element of every feedback memory, guard cells
\* included, of every allpass memory and of both arrays of the stereo ring
\* is zero, and so are both registers of the two pre-filters and of the
\* eight shelf filters
ResetZeroesMemories ==
    last = "reset"
        => /\ \A c \in Containers, j \in Lanes : AllZero(eng.feedback_memories[c][j])
           /\ \A c \in Containers : AllZero(eng.allpass_memories[c])
           /\ AllZero(eng.stereo_memory.left)
           /\ AllZero(eng.stereo_memory.right)
           /\ FilterIsZero(eng.pre_low_filter)
           /\ FilterIsZero(eng.pre_high_filter)
           /\ \A c \in Containers :
                /\ FilterIsZero(eng.low_shelf_filters[c])
                /\ FilterIsZero(eng.high_shelf_filters[c])

\* reset was called on an engine with signal in its feedback, allpass and
\* stereo memories and in its filters
ResetOfFullEngine ==
    /\ last = "reset"
    /\ \E c \in Containers, j \in Lanes : ~AllZero(pre.feedback_memories[c][j])
    /\ \E c \in Containers : ~AllZero(pre.allpass_memories[c])
    /\ ~AllZero(pre.stereo_memory.left)
    /\ ~AllZero(pre.stereo_memory.right)
    /\ ~FilterIsZero(pre.pre_low_filter)
    /\ ~FilterIsZero(pre.pre_high_filter)
    /\ \E c \in Containers : ~FilterIsZero(pre.low_shelf_filters[c])
    /\ \E c \in Containers : ~FilterIsZero(pre.high_shelf_filters[c])

\* the fields of the engine reset has no business with
KeptByReset ==
    { "prev_pre_low_cut_hz", "prev_pre_high_cut_hz", "prev_low_shelf_cut_hz",
      "prev_high_shelf_cut_hz", "prev_size_val", "prev_decay_val",
      "prev_chorus_freq_hz", "prev_mix_val", "prev_low_shelf_gain_db",
      "prev_high_shelf_gain_db",
      "pre_low_coeff", "pre_high_coeff", "low_shelf_coeff", "high_shelf_coeff",
      "low_shelf_amp", "high_shelf_amp", "dry_amp", "wet_amp",
      "decays", "delays", "size_mult_v",
      "chorus_increment_real_v", "chorus_increment_imaginary_v",
      "chorus_amount", "width_coeff",
      "write_index", "chorus_phase", "sample_delay", "sample_delay_increment",
      "did_init" }

\* C10: reset leaves the prev_* fields, the filter coefficients, the shelf,
\* dry and wet amps, the decays, delays, size_mult, chorus increments,
\* chorus_amount, width_coeff, write_index, the offset of the stereo ring,
\* chorus_phase, sample_delay, sample_delay_increment, did_init and the
\* length of every buffer as they were
ResetKeepsParameters ==
    last = "reset"
        => /\ \A field \in KeptByReset : eng[field] = pre[field]
           /\ eng.stereo_memory.offset = pre.stereo_memory.offset
           /\ eng.stereo_memory.left.len = pre.stereo_memory.left.len
           /\ eng.stereo_memory.right.len = pre.stereo_memory.right.len
           /\ \A c \in Containers :
                /\ eng.allpass_memories[c].len = pre.allpass_memories[c].len
                /\ \A j \in Lanes :
                     eng.feedback_memories[c][j].len = pre.feedback_memories[c][j].len

\* reset was called on an engine that had processed frames
ResetAfterProcessing ==
    /\ last = "reset"
    /\ pre.did_init
    /\ pre.write_index > 0
    /\ pre.stereo_memory.offset > 0
    /\ pre.prev_mix_val = DefaultParams.mix
    /\ pre.sample_delay # MIN_DELAY
    /\ pre.dry_amp > 0
    /\ eng # pre

\* C11: reset is idempotent: the engine a reset leaves is the engine a second
\* reset right after it leaves
ResetIsIdempotent == last = "reset" => ResetOp(eng) = eng

\* reset was called on an engine in use: signal in the memories and in the
\* filters, all of it gone afterwards
ResetOfEngineInUse ==
    /\ last = "reset"
    /\ eng # pre
    /\ pre.write_index > 0
    /\ ~FilterIsZero(pre.pre_low_filter)
    /\ \E c \in Containers : ~FilterIsZero(pre.high_shelf_filters[c])
    /\ \E c \in Containers : ~AllZero(pre.allpass_memories[c])
    /\ FilterIsZero(eng.pre_low_filter)

\* the length of every buffer of the engine
BufferLengths(self) ==
    [ feedback |-> Each(LAMBDA c : Each(LAMBDA j : self.feedback_memories[c][j].len)),
      allpass |-> Each(LAMBDA c : self.allpass_memories[c].len),
      stereo |-> <<self.stereo_memory.left.len, self.stereo_memory.right.len>> ]

\* C12: once init was called each of the 16 feedback buffers has
\* max_feedback_size + 4 elements and each of the 4 allpass buffers
\* buffer_scale * 2^10 * 4, and a process or reset call leaves the length of
\* every feedback, allpass and stereo buffer as it was
BuffersAllocatedByInit ==
    /\ eng.did_init =>
            /\ \A c \in Containers, j \in Lanes :
                    eng.feedback_memories[c][j].len = eng.max_feedback_size + 4
            /\ \A c \in Containers :
                    eng.allpass_memories[c].len = eng.buffer_scale * (2 ^ 10) * 4
    /\ last \in {"process", "reset"} => BufferLengths(eng) = BufferLengths(pre)

\* an engine initialized at 48 kHz processed frames and was then reset
ResetAfterFramesAt48k ==
    /\ last = "reset"
    /\ ncall = 2
    /\ pre.write_index > 0
    /\ eng.buffer_scale = 2
    /\ eng.feedback_memories[1][1].len = 65540
    /\ eng.allpass_memories[4].len = 8192
    /\ ~AllZero(pre.allpass_memories[4])

\* 1e-6, in Q
MixTolerance == ONE \div 1000000

\* the frames the test had handed over before its last call
DoneBefore == call.done - Len(outL)

\* the buffer the test handed to its last call
LastTestBuffer == TestBuffer(call.test, DoneBefore)

\* the last call was a process call of one of the mix = 0 tests
MixZeroProcessed ==
    last = "process" /\ call.test \in {MixZeroTest(b) : b \in MixZeroBuffers}

\* C13: with mix = 0 since init, every frame after the first 128 is mixed
\* with a dry gain of 1 and a wet gain of 0 within 1e-6, and comes out as it
\* went in within 1e-6 on both channels, however the frames come in calls
MixZeroPassesThrough ==
    MixZeroProcessed
        => \A i \in DOMAIN outL :
              DoneBefore + i > MAX_BLOCK_SIZE
                  => /\ applied[i].dry_amp = ONE
                     /\ Abs(applied[i].wet_amp) <= MixTolerance
                     /\ Abs(outL[i] - LastTestBuffer[i]) <= MixTolerance
                     /\ Abs(outR[i] - LastTestBuffer[i]) <= MixTolerance

\* a mix = 0 test in buffers that are no multiple of a block has come to its
\* last buffer, with signal in the delay ring that the frames read
MixZeroWithWetSignal ==
    /\ MixZeroProcessed
    /\ call.test.buffer_len % MAX_BLOCK_SIZE # 0
    /\ call.done = WetFrames
    /\ Len(blocks) = 2
    /\ ~AllZero(eng.stereo_memory.left)
    /\ ~AllZero(eng.stereo_memory.right)
    /\ outL = LastTestBuffer

\* the last call was a process call of the width = -1 test
WidthTestProcessed == last = "process" /\ call.test = WidthTest

\* C14: with width = -1 every frame from the second block on is processed
\* with a width coefficient of exactly 0, and its wet left and wet right
\* values are equal: with mix = 1 and the same input on both channels the
\* two output buffers are equal there
WidthMinusOneIsMono ==
    WidthTestProcessed
        => \A i \in DOMAIN outL :
              DoneBefore + i > WidthTest.buffer_len
                  => /\ applied[i].width_coeff = 0
                     /\ outL[i] = outR[i]

\* the width = -1 test has come to its last buffer: the two channels of the
\* delay ring differ where the frames read them, and the wet signal is in
\* the output
WidthTestWithWetSignal ==
    /\ WidthTestProcessed
    /\ call.done = WetFrames
    /\ eng.stereo_memory.left # eng.stereo_memory.right
    /\ \E i \in DOMAIN outL : outL[i] # 0
    /\ eng.width_coeff = 0

\* 1/128, in Q
GainStep == ONE \div MAX_BLOCK_SIZE

\* what the frames of the last call were processed with, after what the last
\* frame of the call before was
AppliedInARow == call.previous \o applied

\* the dry and the wet gain of two frames differ by at most step
GainsWithin(a, b, step) ==
    /\ Abs(b.dry_amp - a.dry_amp) <= step
    /\ Abs(b.wet_amp - a.wet_amp) <= step

\* the gains of any two consecutive frames differ by at most step
GainsMoveBy(step) ==
    \A i \in 1..(Len(AppliedInARow) - 1) :
        GainsWithin(AppliedInARow[i], AppliedInARow[i + 1], step)

\* C15, as stated: when mix alternates between 0 and 1 from one block to
\* the next, the dry and the wet gain of two consecutive frames, within a
\* block and from one block to the next, differ by at most 1/128 whatever
\* the length of the blocks is
MixToggleIsSmooth ==
    (last = "process" /\ call.test \in {ToggleTest(b) : b \in ToggleBuffers})
        => GainsMoveBy(GainStep)

\* C15, amended: when mix alternates between 0 and 1 from one block to the
\* next and every block has 128 frames, the dry and the wet gain of two
\* consecutive frames, within a block and from one block to the next,
\* differ by at most 1/128, within 1e-6
FullBlockToggleIsSmooth ==
    (last = "process" /\ call.test = ToggleTest(MAX_BLOCK_SIZE))
        => GainsMoveBy(GainStep + MixTolerance)

\* mix went from 0 to 1 in a block of 128 frames after it had gone from 1
\* to 0: the dry gain came down from 1 and the wet gain up from 0
ToggledInFullBlocks ==
    /\ last = "process"
    /\ call.test = ToggleTest(MAX_BLOCK_SIZE)
    /\ call.done = ToggleBlocks * MAX_BLOCK_SIZE
    /\ Len(applied) = MAX_BLOCK_SIZE
    /\ call.previous # <<>>
    /\ call.previous[1].dry_amp < ONE
    /\ applied[1].dry_amp = ONE
    /\ applied[1].wet_amp = 0
    /\ applied[MAX_BLOCK_SIZE].dry_amp = GainStep
    /\ eng.dry_amp = 0
    /\ eng.wet_amp = ONE

\* the four cutoffs: the field of ReverbParams, its shadow and the
\* coefficient derived from it
Cutoffs ==
    { [param |-> "pre_low_cut_hz", prev |-> "prev_pre_low_cut_hz", coeff |-> "pre_low_coeff"],
      [param |-> "pre_high_cut_hz", prev |-> "prev_pre_high_cut_hz", coeff |-> "pre_high_coeff"],
      [param |-> "low_shelf_cut_hz", prev |-> "prev_low_shelf_cut_hz", coeff |-> "low_shelf_coeff"],
      [param |-> "high_shelf_cut_hz", prev |-> "prev_high_shelf_cut_hz",
       coeff |-> "high_shelf_coeff"] }

\* the clamped cutoff of a call
CutoffVal(params, cutoff) == Clamp(params[cutoff.param], MIN_CUTOFF_FREQ, MAX_CUTOFF_FREQ)

\* the block-entry preparation of the first block of the last call
FirstBlockPrepared == Prepare(pre, blocks[1][2], call.params)

\* the last call processed at least a block
BlockProcessed == Processed /\ ~panicked /\ blocks # <<>>

\* C16: when the clamped value of a cutoff, of mix, of a shelf gain, of size
\* and decay or of the chorus frequency is the shadow value the block before
\* left, the block starts from the stored target derived from it, changes it
\* by a delta of zero per frame and leaves it as it was
CachedTargetsAreKept ==
    BlockProcessed =>
        \A p \in {FirstBlockPrepared} :
            /\ \A cutoff \in Cutoffs :
                    CutoffVal(call.params, cutoff) = pre[cutoff.prev]
                        => /\ p.reg[cutoff.coeff] = pre[cutoff.coeff]
                           /\ p.delta[cutoff.coeff] = 0
                           /\ eng[cutoff.coeff] = pre[cutoff.coeff]
                           /\ eng[cutoff.prev] = pre[cutoff.prev]
            /\ MixVal(call.params) = pre.prev_mix_val
                    => /\ p.reg.dry_amp = pre.dry_amp /\ p.reg.wet_amp = pre.wet_amp
                       /\ p.delta.dry_amp = 0 /\ p.delta.wet_amp = 0
                       /\ eng.dry_amp = pre.dry_amp /\ eng.wet_amp = pre.wet_amp
            /\ LowShelfGainDb(call.params) = pre.prev_low_shelf_gain_db
                    => /\ p.reg.low_shelf_amp = pre.low_shelf_amp
                       /\ p.delta.low_shelf_amp = 0
                       /\ eng.low_shelf_amp = pre.low_shelf_amp
            /\ HighShelfGainDb(call.params) = pre.prev_high_shelf_gain_db
                    => /\ p.reg.high_shelf_amp = pre.high_shelf_amp
                       /\ p.delta.high_shelf_amp = 0
                       /\ eng.high_shelf_amp = pre.high_shelf_amp
            /\ SizeVal(call.params) = pre.prev_size_val
                    => eng.size_mult_v = pre.size_mult_v
            /\ (/\ SizeVal(call.params) = pre.prev_size_val
                /\ DecayVal(call.params) = pre.prev_decay_val)
                    => /\ p.reg.decays = pre.decays
                       /\ p.delta.decays = Each(LAMBDA c : V4(0))
                       /\ eng.decays = pre.decays
                       /\ eng.delays = pre.delays
            /\ ChorusFreq(call.params) = pre.prev_chorus_freq_hz
                    => /\ eng.chorus_increment_real_v = pre.chorus_increment_real_v
                       /\ eng.chorus_increment_imaginary_v = pre.chorus_increment_imaginary_v

\* a block was processed with out-of-range params whose clamped values are
\* all the shadows the block before left
EveryTargetCached ==
    /\ BlockProcessed
    /\ call.params = WildParams
    /\ pre.write_index > 0
    /\ \A cutoff \in Cutoffs : CutoffVal(call.params, cutoff) = pre[cutoff.prev]
    /\ MixVal(call.params) = pre.prev_mix_val
    /\ LowShelfGainDb(call.params) = pre.prev_low_shelf_gain_db
    /\ HighShelfGainDb(call.params) = pre.prev_high_shelf_gain_db
    /\ SizeVal(call.params) = pre.prev_size_val
    /\ DecayVal(call.params) = pre.prev_decay_val
    /\ ChorusFreq(call.params) = pre.prev_chorus_freq_hz
    /\ eng.pre_low_coeff # DefaultReverb.pre_low_coeff

\* the write_index each frame of the last call left, in a row
WriteIndexAfter(i) ==
    IF i < Len(applied) THEN applied[i + 1].write_index ELSE eng.write_index

\* C17: once init has run, write_index is at least 0 and below
\* max_feedback_size, before every frame and after it, and every frame a call
\* processes leaves it one further, modulo max_feedback_size
WriteIndexAdvances ==
    /\ eng.did_init =>
            /\ 0 <= eng.write_index
            /\ eng.write_index < eng.max_feedback_size
    /\ (Processed /\ ~panicked) =>
            /\ applied # <<>> => applied[1].write_index = pre.write_index
            /\ \A i \in 1..Len(applied) :
                    /\ 0 <= applied[i].write_index
                    /\ applied[i].write_index < eng.max_feedback_size
                    /\ WriteIndexAfter(i) =
                            (applied[i].write_index + 1) % eng.max_feedback_size

\* a call processed the frame at the last index of the ring and the frame at
\* index 0 after it
RingWrapped ==
    /\ Processed /\ ~panicked
    /\ \E i \in 1..Len(applied) :
            /\ applied[i].write_index = eng.max_feedback_size - 1
            /\ WriteIndexAfter(i) = 0
            /\ i < Len(applied)

\* the engine at the top of the first block of the last call of a test, the
\* block-entry preparation done
TopOfBlock == Prepare(pre, blocks[1][2], TestParams(call.test, DoneBefore)).self

\* C18: at the top of a block, the guard copy made, each of the 16 feedback
\* buffers holds at index 0 what it holds at max_feedback_size, and at
\* max_feedback_size + k what it holds at k, k = 1, 2, 3
GuardCellsCopied ==
    (Processed /\ ~panicked /\ blocks # <<>>) =>
        \A top \in {TopOfBlock} :
            \A c \in Containers, j \in Lanes :
                /\ Load(top.feedback_memories[c][j], 0) =
                        Load(top.feedback_memories[c][j], top.max_feedback_size)
                /\ \A k \in 1..3 :
                        Load(top.feedback_memories[c][j], top.max_feedback_size + k) =
                            Load(top.feedback_memories[c][j], k)

\* a block started after the frames at the end of the ring and at its start
\* were written: before the guard copy a buffer holds at index 0 and past the
\* end something else than at max_feedback_size and at 1, 2, 3
GuardCellsStale ==
    /\ Processed /\ ~panicked /\ blocks # <<>>
    /\ \E c \in Containers, j \in Lanes :
            /\ Load(pre.feedback_memories[c][j], 0) #
                    Load(pre.feedback_memories[c][j], pre.max_feedback_size)
            /\ \A k \in 1..3 :
                    Load(pre.feedback_memories[c][j], pre.max_feedback_size + k) #
                        Load(pre.feedback_memories[c][j], k)

\* a pre-delay of at least 3 and at most 192000 samples
InDelayRange(delay) == delay # NAN /\ FD(3, 1) <= delay /\ delay <= FD(192000, 1)

\* C19: the sample_delay the engine keeps between calls, and the delay every
\* frame of a call reads the stereo ring with, is a finite number of at least
\* 3 and at most 192000
SampleDelayInRange ==
    /\ InDelayRange(eng.sample_delay)
    /\ \A i \in 1..Len(applied) : InDelayRange(applied[i].sample_delay)

\* n is a power of two
IsPowerOfTwo(n) == n \in Pow2Set

\* the sample rate of the last init, in Hertz
InitRate == eng.sample_rate \div D_ONE

\* C20: once init(fs) has run, buffer_scale is the smallest power of two that
\* is at least fs / 44100, max_feedback_size is buffer_scale * 2^15,
\* max_feedback_size, allpass_mask + 1 and the size of the stereo ring are
\* powers of two and feedback_mask is max_feedback_size - 1, in the state
\* init leaves and in every state after it
SizesArePowersOfTwo ==
    eng.did_init =>
        /\ IsPowerOfTwo(eng.buffer_scale)
        /\ eng.buffer_scale * 44100 >= InitRate
        /\ \A scale \in 1..(eng.buffer_scale - 1) :
                IsPowerOfTwo(scale) => scale * 44100 < InitRate
        /\ eng.max_feedback_size = eng.buffer_scale * (2 ^ 15)
        /\ IsPowerOfTwo(eng.max_feedback_size)
        /\ IsPowerOfTwo(eng.allpass_mask + 1)
        /\ IsPowerOfTwo(eng.stereo_memory.size)
        /\ eng.feedback_mask = eng.max_feedback_size - 1

\* an engine initialized at twice the base rate, where fs / 44100 is a power
\* of two itself, after a call that processed frames
ScaledEngineInUse ==
    /\ Processed /\ ~panicked /\ blocks # <<>>
    /\ InitRate = 2 * BASE_SAMPLE_RATE
    /\ eng.buffer_scale = 2

\* the two halves of a channel of the stereo ring hold the same, and the 4
\* elements from a start index at the end of the first half are the ring's
\* samples at the start index and the 3 positions after it, modulo size
ChannelMirrored(buf, size) ==
    /\ \A i \in DOMAIN buf.cells :
            /\ 0 <= i /\ i < 2 * size
            /\ Load(buf, i) = Load(buf, (i + size) % (2 * size))
    /\ \A start \in (size - 4)..(size - 1) :
            Taps(buf, start) =
                << Load(buf, start % size), Load(buf, (start + 1) % size),
                   Load(buf, (start + 2) % size), Load(buf, (start + 3) % size) >>

\* C21: whatever was pushed into the stereo ring of size S, offset is at
\* least 0 and below S, left[i] = left[i + S] and right[i] = right[i + S] for
\* every i below S, and 4 consecutive elements from a masked start index are
\* the 4 samples of the ring from that position on
StereoRingMirrored ==
    \A m \in {eng.stereo_memory} :
        /\ 0 <= m.offset /\ m.offset < m.size
        /\ ChannelMirrored(m.left, m.size)
        /\ ChannelMirrored(m.right, m.size)

\* a call pushed samples up to the end of the ring and from its start again,
\* and a frame after that read 4 elements over the end of the first half
StereoRingWrapped ==
    /\ Processed /\ ~panicked
    /\ eng.stereo_memory.offset < pre.stereo_memory.offset
    /\ eng.stereo_memory.offset >= 4
    /\ \A i \in {0, 1, eng.stereo_memory.size - 1} :
            /\ Load(eng.stereo_memory.left, i) # 0
            /\ Load(eng.stereo_memory.left, i + eng.stereo_memory.size) # 0

\* the engine as frame i of the last call found it, as far as the indices
\* of its buffer accesses go
EngineAt(i) == [eng EXCEPT !.write_index = applied[i].write_index]

\* the stereo ring as frame i of the last call read it
StereoRingAt(i) ==
    [eng.stereo_memory EXCEPT !.offset = applied[i].used.stereo_offset]

\* the 4 elements from start on lie within lo..hi
WindowWithin(start, lo, hi) == lo <= start /\ start + 3 <= hi

TapsAreCurrent ==
    (Processed /\ ~panicked) =>
        \A i \in 1..Len(applied) : applied[i].used.stale_taps = {}

\* the least number of samples between a feedback read and the store of its
\* frame: 8 * POLY_LEN
MinReadOffset == FD(32, 1)

\* in every frame of the last call and every one of the 16 lanes, the read
\* offset is at least MinReadOffset less slack, and the chorus amount in
\* effect at most the lane's delay less MinReadOffset plus slack
ReadOffsetsAtLeast(slack) ==
    (Processed /\ ~panicked) =>
        \A i \in 1..Len(applied) : \A c \in Containers, j \in Lanes :
            /\ applied[i].used.feedback_offsets[c][j] >= MinReadOffset - slack
            /\ applied[i].used.chorus_amount[j]
                    <= eng.delays[c][j] - MinReadOffset + slack

\* C24: in every frame and every one of the 16 lanes the feedback read
\* offset in use is at least 32 samples: the smoothed chorus amount in effect
\* is at most the lane's delay less 32
ReadOffsetsAtLeast32 == ReadOffsetsAtLeast(0)

\* the same to within a sample
ReadOffsetsAbout32 == ReadOffsetsAtLeast(D_ONE)

\* C25: once the block-entry preparation of a block has run, the target
\* chorus_amount of each lane is at least 0 and at most the delay of the lane
\* in each of the 4 containers less 32 samples
ChorusTargetCapped ==
    BlockProcessed =>
        \A c \in Containers, j \in Lanes :
            /\ 0 <= eng.chorus_amount[j]
            /\ eng.chorus_amount[j] <= eng.delays[c][j] - FD(32, 1)

\* a block was prepared at the highest sample rate with size = 0 and
\* chorus_amount = 1 (both clamped): the cap is what the target is, and it
\* comes from another container in lane 3 than in lane 0
ChorusTargetAtTheCap ==
    /\ BlockProcessed
    /\ InitRate = MAX_SAMPLE_RATE
    /\ SizeVal(call.params) = 0
    /\ ChorusAmountVal(call.params) = ONE
    /\ eng.chorus_amount[1] = eng.delays[3][1] - FD(32, 1)
    /\ eng.chorus_amount[4] = eng.delays[4][4] - FD(32, 1)

\* the position in the ring, counted from write_index, of the first of the 4
\* elements a feedback read with an offset (D) takes, before the mask
FlooredOffset(i, offset) == (applied[i].write_index * D_ONE - offset) \div D_ONE

\* every feedback read offset of the last call is at most
\* max_feedback_size - 4
ReadOffsetsBelowRing ==
    (Processed /\ ~panicked) =>
        \A i \in 1..Len(applied) : \A c \in Containers, j \in Lanes :
            applied[i].used.feedback_offsets[c][j]
                <= (eng.max_feedback_size - 4) * D_ONE

\* C26: every feedback read offset is at most max_feedback_size - 4, and the
\* 4 elements of a feedback read are positions of the ring stored in the
\* frames before, less than a lap ago: none is the cell the frame stores to,
\* write_index + 1, or a cell after it that the lap has not reached
ReadsBehindTheWrite ==
    /\ ReadOffsetsBelowRing
    /\ (Processed /\ ~panicked) =>
        \A i \in 1..Len(applied) : \A c \in Containers, j \in Lanes :
            \A first \in {FlooredOffset(i, applied[i].used.feedback_offsets[c][j])
                            + EXTRA_LOOKUP_SAMPLE} :
                /\ first + 3 <= applied[i].write_index
                /\ first > applied[i].write_index + EXTRA_LOOKUP_SAMPLE
                                - eng.max_feedback_size

\* the registers that reach their target in a ramp over the block
Ramped ==
    { "pre_low_coeff", "pre_high_coeff", "low_shelf_coeff", "high_shelf_coeff",
      "low_shelf_amp", "high_shelf_amp", "dry_amp", "wet_amp" }

\* old + k * (new - old) / n, within the rounding of 1/n and of the delta in
\* each of the k increments
OnTheRamp(value, old, new, k, n) ==
    Abs(value - (old + ((k * (new - old)) \div n))) <= 2 * k + 1

\* C27: in the first block of a call, of n frames, frame k (from 0) is
\* processed with old + k * (new - old) / n for each of the four filter
\* coefficients, the two shelf amps, the dry and the wet amp, where old is
\* the target the block before stored and new the target of the block; the
\* first frame of the block, and every frame of the blocks after it in the
\* call, have exactly the target stored by the block before
RampsAreLinear ==
    BlockProcessed =>
        \A field \in Ramped :
            /\ applied[1][field] = pre[field]
            /\ \A k \in 0..(blocks[1][2] - 1) :
                    OnTheRamp(applied[k + 1][field], pre[field], eng[field],
                              k, blocks[1][2])
            /\ \A i \in (blocks[1][2] + 1)..Len(applied) :
                    applied[i][field] = eng[field]

\* a call of more than a block whose first block, of 128 frames, ramps
\* each of the eight registers to a new target
EveryRampMoves ==
    /\ BlockProcessed
    /\ call.test = SweepTest
    /\ Len(blocks) > 1
    /\ blocks[1][2] = MAX_BLOCK_SIZE
    /\ pre.write_index > 0
    /\ \A field \in Ramped :
            /\ Abs(eng[field] - pre[field]) > MAX_BLOCK_SIZE
            /\ applied[MAX_BLOCK_SIZE \div 2][field] # pre[field]
            /\ applied[MAX_BLOCK_SIZE \div 2][field] # eng[field]

\* the angle the chorus oscillator turns by in a frame, for a frequency
ChorusAngle(self, chorus_freq) ==
    MulQ(MulQ(chorus_freq, self.sample_rate_recip) \div 64, TAU_Q) \div K

\* every stored derived quantity is the function of its shadow parameter
DerivedFromShadows(self) ==
    /\ \A cutoff \in Cutoffs :
            self[cutoff.coeff] = ComputeCoeff(self[cutoff.prev], self.sample_rate_recip)
    /\ self.dry_amp = EqualPowerFade(self.prev_mix_val)
    /\ self.wet_amp = EqualPowerFadeInverse(self.prev_mix_val)
    /\ self.low_shelf_amp = ONE - DbToAmplitude(self.prev_low_shelf_gain_db)
    /\ self.high_shelf_amp = DbToAmplitude(self.prev_high_shelf_gain_db)
    /\ self.size_mult_v = SizeMult(self.prev_size_val)
    /\ self.decays = DecaysFor(self.size_mult_v, self.prev_decay_val)
    /\ self.delays = DelaysFor(self.size_mult_v, self.sample_rate_ratio)
    /\ self.chorus_increment_real_v
            = Cos(ChorusAngle(self, self.prev_chorus_freq_hz))
    /\ self.chorus_increment_imaginary_v
            = Sin(ChorusAngle(self, self.prev_chorus_freq_hz))

\* no shadow parameter is a value its parameter can be clamped to
ShadowsOutOfRange(self) ==
    /\ \A cutoff \in Cutoffs :
            self[cutoff.prev] < MIN_CUTOFF_FREQ \/ self[cutoff.prev] > MAX_CUTOFF_FREQ
    /\ self.prev_mix_val < 0 \/ self.prev_mix_val > ONE
    /\ self.prev_size_val < 0 \/ self.prev_size_val > ONE
    /\ self.prev_decay_val < MIN_DECAY_SECONDS \/ self.prev_decay_val > MAX_DECAY_SECONDS
    /\ self.prev_chorus_freq_hz < MIN_CHORUS_FREQ
            \/ self.prev_chorus_freq_hz > MAX_CHORUS_FREQ
    /\ self.prev_low_shelf_gain_db < MIN_SHELF_GAIN_DB
            \/ self.prev_low_shelf_gain_db > MAX_SHELF_GAIN_DB
    /\ self.prev_high_shelf_gain_db < MIN_SHELF_GAIN_DB
            \/ self.prev_high_shelf_gain_db > MAX_SHELF_GAIN_DB

\* C28: after a call that processed a block, the four filter coefficients,
\* the dry and wet amps, the shelf amps, size_mult, decays, delays and the
\* chorus increments are the functions of the shadow parameters prev_* the
\* engine holds; and an engine just initialised holds no shadow inside the
\* range of its parameter, so that its first block computes all of them
DerivedMatchShadows ==
    /\ BlockProcessed => DerivedFromShadows(eng)
    /\ last = "init" => ShadowsOutOfRange(eng)

\* a block with a new size and the decay of the block before: size_mult,
\* decays and delays were derived again, the rest was kept
OnlySizeChanged ==
    /\ BlockProcessed
    /\ call.test = ShrinkTest
    /\ ~ShadowsOutOfRange(pre)
    /\ pre.prev_size_val = ONE
    /\ eng.prev_size_val = 0
    /\ eng.prev_decay_val = pre.prev_decay_val
    /\ eng.delays # pre.delays
    /\ eng.decays # pre.decays
    /\ eng.pre_low_coeff = pre.pre_low_coeff

\* the chorus oscillator of frame i of the last call turned by the angle of
\* the block, both components from the values before the frame, within slack
RotatedFromBefore(i, slack) ==
    \A real \in {applied[i].chorus_before[1]}, imaginary \in {applied[i].chorus_before[2]} :
        \A j \in Lanes :
            /\ Abs(applied[i].used.chorus_real[j]
                    - (MulQ(real[j], eng.chorus_increment_real_v)
                        - MulQ(imaginary[j], eng.chorus_increment_imaginary_v)))
                    <= slack
            /\ Abs(applied[i].used.chorus_imaginary[j]
                    - (MulQ(imaginary[j], eng.chorus_increment_real_v)
                        + MulQ(real[j], eng.chorus_increment_imaginary_v)))
                    <= slack

\* C29: at every frame the chorus oscillator is advanced by a complex
\* rotation, both new components computed from the values before the
\* update: (real', imag') = (real*c - imag*s, imag*c + real*s), c and s the
\* chorus increments of the block (within a unit of 2^-20 for the rounding
\* of the products)
ChorusRotates ==
    BlockProcessed => \A i \in 1..Len(applied) : RotatedFromBefore(i, 1)

\* lane j XOR 1, the lanes counted from 1
OtherLane(j) == <<2, 1, 4, 3>>[j]

\* the frames an allpass memory holds
AllpassFrames(self) == (self.allpass_mask + 1) \div POLY_LEN

\* ALLPASS_DELAYS[c][lane] * buffer_scale + 1
AllpassDelayFrames(self, c, lane) == ALLPASS_DELAYS[c][lane] * self.buffer_scale + 1

\* what the memory holds of lane `lane` of the frame whose write_index was
\* w, or was w before write_index wrapped (0.0 when nothing was stored)
StoredOfFrame(self, memory, w, lane) ==
    Load(memory, POLY_LEN * (w % AllpassFrames(self)) + (lane - 1))

\* C30: the allpass read of lane j of container c in a frame is what lane
\* j XOR 1 of the container stored ALLPASS_DELAYS[c][j XOR 1] * buffer_scale
\* + 1 frames earlier: the store of that frame of the call, or what the
\* call found in the memory for that frame (0.0 when nothing was stored since
\* init or reset), also when write_index wrapped in between; and the call
\* leaves in the memory the stores of its frames, which are fewer than the
\* ring has and more than the longest delay apart from the cell being read
AllpassReadsDelayed ==
    BlockProcessed =>
        \A c \in Containers, j \in Lanes :
            \A lane \in {OtherLane(j)} :
            \A d \in {AllpassDelayFrames(eng, c, lane)} :
                /\ d < AllpassFrames(eng)
                /\ \A i \in 1..Len(applied) :
                    /\ applied[i].used.allpass_reads[c][j] =
                        IF i > d
                        THEN applied[i - d].used.allpass_stores[c][lane]
                        ELSE StoredOfFrame(pre, pre.allpass_memories[c],
                                           applied[i].write_index - d, lane)
                    /\ i + AllpassFrames(eng) > Len(applied)
                        => StoredOfFrame(eng, eng.allpass_memories[c],
                                         applied[i].write_index, j)
                            = applied[i].used.allpass_stores[c][j]

\* after write_index wrapped, a frame read from the allpass memories what
\* was stored before the wrap, in a call before
AllpassReadAcrossWrap ==
    /\ BlockProcessed
    /\ call.test = RingTest
    /\ \E c \in Containers, j \in Lanes :
        \E i \in 1..Len(applied) :
            /\ applied[i].write_index < AllpassDelayFrames(eng, c, OtherLane(j))
            /\ applied[i].write_index < pre.write_index
            /\ applied[i].used.allpass_reads[c][j] # 0

\* a frame read from the allpass memories what a call before stored, where
\* the two lanes of the pair had stored different values
AllpassReadOfOtherLane ==
    /\ BlockProcessed
    /\ call.test = SineTest
    /\ \E c \in Containers, j \in Lanes :
        \E i \in 1..Len(applied) :
            /\ applied[i].used.allpass_reads[c][j] # 0
            /\ applied[i].used.allpass_reads[c][j]
                    # StoredOfFrame(pre, pre.allpass_memories[c],
                                    applied[i].write_index
                                        - AllpassDelayFrames(eng, c, OtherLane(j)), j)

============================================================================
